---- MODULE Spec2Model ----
(***************************************************************************)
(* Order lifecycle of the SMS number rental backend.                       *)
(*                                                                         *)
(* The committed storage state (users.balance, orders, messages) is shared *)
(* by concurrently running handlers.  Every handler works in a storage     *)
(* session of its own: it loads rows into its session (a snapshot), is     *)
(* suspended at each await, and at commit writes the values it computed    *)
(* from its snapshot (UPDATE ... SET balance = <value>, status = <value>   *)
(* WHERE id = <id>).  One action of the model is the code between two      *)
(* suspension points of a handler.                                         *)
(***************************************************************************)
EXTENDS Integers, Sequences, FiniteSets, TLC

\* ------------------------------------------------------------------ bounds

\* Number of order rows the model lets create_order insert.
MaxOrders == 2
\* Last value of the clock.
MaxTime == 2
\* settings.order_timeout_minutes, in clock ticks.
OrderTimeout == 1
\* Balance of user "u1" in the initial state.
StartBalance == 3
\* Number of create_order calls that may be in flight at once.
MaxCreate == 2
\* Number of cancel_order calls that may be in flight at once.
MaxCancel == 1
\* Number of handlers and tasks that may be between their first read and
\* their return at once.
MaxInFlight == 2
\* Number of order rows up to which calls and tasks start; with more rows
\* the handlers in flight finish and webhooks are delivered.
MaxBusyRows == 1

\* ------------------------------------------------------------ catalog data

\* users.telegram_id values with a row; "nobody" has none.
Users == {"u1", "u2"}
NoUser == "nobody"

\* countries rows: price_from and available; "zz" has no row.
Countries ==
    [ru |-> [price_from |-> 2, available |-> TRUE],
     ua |-> [price_from |-> 1, available |-> TRUE],
     us |-> [price_from |-> 1, available |-> FALSE]]
\* services rows: price_from and available; "zz" has no row.
Services ==
    [tg |-> [price_from |-> 1, available |-> TRUE],
     wa |-> [price_from |-> 2, available |-> TRUE],
     ds |-> [price_from |-> 1, available |-> FALSE]]
NoRow == "zz"
CountryIds == DOMAIN Countries
ServiceIds == DOMAIN Services

\* The OrderCreate requests (telegram_id, country_id, service_id) the
\* clients send: two that can succeed, and one for every check that fails.
Requests ==
    {<<"u1", "ru", "tg">>, <<"u1", "ua", "wa">>, <<"u2", "ru", "tg">>,
     <<NoUser, "ru", "tg">>, <<"u1", NoRow, "tg">>, <<"u1", "ru", NoRow>>,
     <<"u1", "us", "tg">>, <<"u1", "ru", "ds">>}

\* The phone numbers of the provider's pool, and the phone numbers webhooks
\* carry: "p2" is a number no order has.
PoolPhones == {"p1"}
Phones == PoolPhones \cup {"p2"}
\* The message text webhooks carry: a label and a code of four digits.
SmsText == <<"C", ":", " ", "1", "1", "1", "1">>
Texts == {SmsText}

OrderIds == 1..MaxOrders

\* The external ids DummyProvider gives out, and a reservation it has not
\* made.  A reservation is younger than a minute, older, or older than the
\* fifteen minutes after which get_sms calls it expired.
MaxDummyOrders == 2
DummyIds == 1..MaxDummyOrders
NoReservation == [status |-> "none", age |-> 0]

\* At most MaxQueues queues are created and a queue holds at most MaxQueued
\* messages.
MaxQueues == 3
MaxQueued == 2

\* The queues sse_manager.connect creates, and the event_stream of a queue:
\* none yet, open, open with the client gone, or closed.
QueueIds == 1..MaxQueues
NoStream == [pc |-> "none", user_id |-> NoUser]
\* Order.id values are positive; external ids are negative: the two
\* identifier spaces (uuid4 and the provider's) are disjoint.
ExtIds == {-o : o \in OrderIds}
\* A reference that is neither an Order.id nor an external_order_id.
NoRef == 0

Creators == 1..MaxCreate
Cancellers == 1..MaxCancel

Max(a, b) == IF a >= b THEN a ELSE b

\* -------------------------------------------------------------------- state

VARIABLES
    data,       \* the webhook payload a validator is applied to
    connections, \* sse_manager.connections: the queues of each user
    keys,       \* the user ids that are keys of sse_manager.connections
    fanout,     \* the send_to_user call that is at its loop over the queues
    queues,     \* the messages in each asyncio.Queue
    streams,    \* the event_stream generator that owns each queue
    dummy,      \* DummyProvider.orders, with the age of each reservation
    send_raises, \* sse_manager.send_to_user raises when a handler calls it
    now,        \* the clock
    balance,    \* users.balance, committed
    orders,     \* orders rows, committed
    messages,   \* messages rows per order id, committed
    provider,   \* OrderService.sms_provider is not None
    released,   \* external ids the provider was asked to cancel
    events,     \* events handed to sse_manager.send_to_user
    creq,       \* create_order calls
    xreq,       \* cancel_order calls
    timer,      \* _monitor_order_expiration tasks, one per order
    sweep,      \* the cleanup_expired_orders task
    ret,        \* what the handler that returned in the last step returned
    refunds,    \* history: committed "balance += price" per order
    expiries,   \* history: committed "status = expired" per order
    applied,    \* history: committed "status = received" per order
    timers      \* history: create_task(_monitor_order_expiration) per order

vars == <<data, connections, keys, fanout, queues, streams, dummy, send_raises, now, balance, orders, messages, provider, released,
          events, creq, xreq, timer, sweep, ret, refunds, expiries, applied,
          timers>>

\* An orders row that does not exist.
NoOrder ==
    [status |-> "absent", user |-> NoUser, price |-> 0, phone |-> "",
     ext |-> 0, expires_at |-> 0]

\* A create_order call: the user row it loaded (snap is user.balance as
\* loaded), the price it computed and the provider's answer.
IdleCreate ==
    [pc |-> "idle", user |-> NoUser, price |-> 0, snap |-> 0, phone |-> "",
     ext |-> 0]

\* A cancel_order call: the order row and the user row it loaded.
\* rel is how its provider call ended.
IdleCancel ==
    [pc |-> "idle", order |-> 0, user |-> NoUser, snap |-> 0, rel |-> ""]

NoTimer == [pc |-> "none", wake |-> 0, snap |-> 0, rel |-> ""]

IdleSweep ==
    [pc |-> "idle", todo |-> <<>>, cache |-> [u \in Users |-> -1],
     rel |-> ""]

\* What a handler returned: op is the handler, ok its result (an Order or
\* True against None or False), why the branch it returned from, order the
\* row it wrote or refused to write (0 if none), wrote whether the call
\* committed a write.
Return(op, ok, why, o, wrote) ==
    [op |-> op, ok |-> ok, why |-> why, order |-> o, wrote |-> wrote]
NoReturn == Return("none", FALSE, "", 0, FALSE)

\* No send_to_user call is at its loop.  Of a call that is: the user and
\* the event, the position i of the loop in the list, the queues that were
\* in the list when the loop began and those the message was put in.
NoFanout ==
    [pc |-> "idle", user_id |-> NoUser, event_type |-> "", i |-> 0,
     start |-> {}, got |-> {}]

\* users.balance before the first order: "u2" cannot pay for any number.
start_balance(u) == IF u = "u1" THEN StartBalance ELSE 0

\* ------------------------------------------------------------ SMSValidator

\* A string is a sequence of characters: "1", "2" and "7" are the digits,
\* "-" stands for the characters that are neither a digit nor "+".
Digits == {"1", "2", "7"}

\* The bounds of the quantifier in the pattern of validate_phone_number.
MinDigits == 10
MaxDigits == 15

\* re.sub(r'[^\d+]', '', phone_number)
kept_by_clean(c) == c \in Digits \cup {"+"}
clean_number(s) == SelectSeq(s, kept_by_clean)

\* re.match of the pattern on the cleaned number.  The pattern is anchored
\* at the start; what the source holds of it ends with the quantifier, and
\* re.match looks for a match at the start of the string, not for a match
\* of the whole string.
re_match_pattern(s) ==
    /\ Len(s) >= 1 + MinDigits
    /\ s[1] = "+"
    /\ \A i \in 2..(1 + MinDigits) : s[i] \in Digits

\* SMSValidator.validate_phone_number
validate_phone_number(phone_number) ==
    IF phone_number = <<>> THEN FALSE
    ELSE re_match_pattern(clean_number(phone_number))

\* A message text is a sequence of characters as well: "K" stands for the
\* word of the first label pattern and "C" for that of the second, "a" for
\* any other letter, " " for white space and ":" for the colon.
WordChars == Digits \cup {"K", "C", "a"}

\* The number of digits that follow each other from position i of s on.
RunLen(s, i) ==
    Cardinality({k \in 1..(Len(s) - i + 1) :
                    \A m \in i..(i + k - 1) : s[m] \in Digits})

\* \b before position i of s: a word character on one side only.
word_boundary(s, i) ==
    (i - 1 \in 1..Len(s) /\ s[i - 1] \in WordChars)
       # (i \in 1..Len(s) /\ s[i] \in WordChars)

\* The bounds the extracted code must keep, and those of the quantifier of
\* the first and the last pattern.
MinCode == 4
MaxCode == 6

\* re.findall(r'\b(\d{4,6})\b', ...): where the matches start.
bare_matches(s) ==
    {i \in 1..Len(s) :
        /\ word_boundary(s, i)
        /\ RunLen(s, i) \in MinCode..MaxCode
        /\ word_boundary(s, i + RunLen(s, i))}

\* Where the digits start that a label pattern captures when the label is at
\* position i: after the optional colon and the white space.
after_label(s, i) ==
    LET j == IF i + 1 <= Len(s) /\ s[i + 1] = ":" THEN i + 2 ELSE i + 1
        blanks == Cardinality({k \in 1..(Len(s) - j + 1) :
                                 \A m \in j..(j + k - 1) : s[m] = " "})
    IN  j + blanks

\* re.findall(r'<label>:?\s*(\d+)', ...): where the captured digits of the
\* matches start that pass the check of the length.
label_matches(s, label) ==
    {after_label(s, i) : i \in {i \in 1..Len(s) :
        /\ s[i] = label
        /\ RunLen(s, after_label(s, i)) \in MinCode..MaxCode}}

\* re.findall(r'(\d{4,6})\D', ...): where the matches start.  The search
\* goes on after a match, so a match does not start inside another.
tail_matches(s) ==
    LET starts == {i \in 1..Len(s) :
                     /\ RunLen(s, i) \in MinCode..MaxCode
                     /\ i + RunLen(s, i) <= Len(s)}
    IN  {i \in starts :
           \A h \in starts : h < i => h + RunLen(s, h) < i}

\* The patterns in the order of the list: the bare run of digits first, then
\* the labels, the bare run before a character that is no digit last.  The
\* patterns with "your" match no text of these characters.
pattern_matches(s) ==
    <<bare_matches(s), label_matches(s, "K"), label_matches(s, "C"),
      tail_matches(s)>>

\* The first match of the first pattern that has one, <<>> for None.
first_code(s, found) ==
    LET hits == {p \in 1..Len(found) : found[p] # {}}
    IN  IF hits = {} THEN <<>>
        ELSE LET p == CHOOSE p \in hits : \A q \in hits : p <= q
                 i == CHOOSE i \in found[p] : \A h \in found[p] : i <= h
             IN  SubSeq(s, i, i + RunLen(s, i) - 1)

\* SMSValidator.extract_verification_code
extract_verification_code(message_text) ==
    IF message_text = <<>> THEN <<>>
    ELSE first_code(message_text, pattern_matches(message_text))

\* SMSValidator.sanitize_message_text: the text is stripped and every run of
\* blanks becomes one blank.
sanitize_message_text(s) ==
    LET kept == {i \in 1..Len(s) :
                   \/ s[i] # " "
                   \/ /\ i > 1
                      /\ s[i - 1] # " "
                      /\ \E j \in (i + 1)..Len(s) : s[j] # " "}
        nth(k) == CHOOSE i \in kept : Cardinality({j \in kept : j < i}) = k - 1
    IN  [k \in 1..Cardinality(kept) |-> s[nth(k)]]

\* A field of a webhook payload: given with a value, given empty, or missing.
Field(state, value) == [state |-> state, value |-> value]
Payload(order_id, phone_number, message_text) ==
    [order_id |-> order_id, phone_number |-> phone_number,
     message_text |-> message_text]
NoData ==
    Payload(Field("missing", 0), Field("missing", <<>>), Field("missing", <<>>))

required_fields == {"order_id", "phone_number", "message_text"}

\* A validation that returns None when no code is extracted.
validate_webhook_data_with_code(d) ==
    IF \E f \in required_fields : d[f].state # "value" THEN "field"
    ELSE IF ~validate_phone_number(d.phone_number.value) THEN "phone"
    ELSE IF extract_verification_code(
               sanitize_message_text(d.message_text.value)) = <<>>
    THEN "code"
    ELSE ""

\* SMSValidator.validate_webhook_data: why it returns None, "" when it
\* returns the validated data.
validate_webhook_data(d) ==
    IF \E f \in required_fields : d[f].state # "value" THEN "field"
    ELSE IF ~validate_phone_number(d.phone_number.value) THEN "phone"
    ELSE ""

\* The state after construction, whatever the notification hub does.
Constructed ==
    /\ data = NoData
    /\ connections = [u \in Users |-> <<>>]
    /\ keys = {}
    /\ fanout = NoFanout
    /\ queues = [q \in QueueIds |-> <<>>]
    /\ streams = [q \in QueueIds |-> NoStream]
    /\ dummy = [id \in DummyIds |-> NoReservation]
    /\ now = 0
    /\ balance = [u \in Users |-> start_balance(u)]
    /\ orders = [o \in OrderIds |-> NoOrder]
    /\ messages = [o \in OrderIds |-> <<>>]
    /\ provider \in BOOLEAN
    /\ released = {}
    /\ events = {}
    /\ creq = [c \in Creators |-> IdleCreate]
    /\ xreq = [x \in Cancellers |-> IdleCancel]
    /\ timer = [o \in OrderIds |-> NoTimer]
    /\ sweep = IdleSweep
    /\ ret = NoReturn
    /\ refunds = [o \in OrderIds |-> 0]
    /\ expiries = [o \in OrderIds |-> 0]
    /\ applied = [o \in OrderIds |-> 0]
    /\ timers = [o \in OrderIds |-> 0]

\* The service with a notification hub that delivers.
Init == Constructed /\ send_raises = FALSE

\* The handlers and tasks that hold loaded rows and have not returned.
InFlight ==
    Cardinality({c \in Creators : creq[c].pc # "idle"})
    + Cardinality({x \in Cancellers : xreq[x].pc # "idle"})
    + Cardinality({o \in OrderIds : timer[o].pc \in {"user", "release",
                                                        "commit"}})
    + (IF sweep.pc = "idle" THEN 0 ELSE 1)
\* Another handler may start.
MayStart ==
    /\ InFlight < MaxInFlight
    /\ Cardinality({o \in OrderIds : orders[o].status # "absent"})
          <= MaxBusyRows

\* The rows of the orders table.
Rows == {o \in OrderIds : orders[o].status # "absent"}
\* The identifier the next inserted row gets.
NextId == Cardinality(Rows) + 1

\* sse_manager.send_to_user(user_id, event_type, {order_id, status}).
Event(u, type, o, status) ==
    [user |-> u, type |-> type, order |-> o, status |-> status]

\* -------------------------------------------------------------------- clock

Tick ==
    /\ now < MaxTime
    /\ now' = now + 1
    /\ UNCHANGED <<data, connections, keys, fanout, queues, streams, dummy, send_raises>>
    /\ UNCHANGED <<balance, orders, messages, provider, released,
                   events, creq, xreq, timer, sweep, refunds, expiries,
                   applied, timers>>
    /\ ret' = NoReturn

\* ------------------------------------------------------------- create_order

\* price = max(country.price_from, service.price_from)
order_price(cid, sid) ==
    Max(Countries[cid].price_from, Services[sid].price_from)

\* The checks of create_order without the one of the balance.
create_order_check_without_balance(u, cid, sid) ==
    IF u \notin Users THEN "user"
    ELSE IF cid \notin CountryIds \/ sid \notin ServiceIds THEN "catalog"
    ELSE IF ~Countries[cid].available \/ ~Services[sid].available
         THEN "unavailable"
    ELSE ""

\* Why create_order returns None before it calls the provider, "" if it
\* does not: the checks of lines 43-72 on the rows just loaded.
create_order_check(u, cid, sid) ==
    IF u \notin Users THEN "user"
    ELSE IF cid \notin CountryIds \/ sid \notin ServiceIds THEN "catalog"
    ELSE IF ~Countries[cid].available \/ ~Services[sid].available
         THEN "unavailable"
    ELSE IF balance[u] < order_price(cid, sid) THEN "balance"
    ELSE ""

\* create_order up to the provider call: the user, country and service rows
\* are loaded and checked.  The calls in flight are interchangeable: a new
\* call takes the first free place.  Calls arrive while the clock leaves
\* their order the time to become past due.
CreateStart(c, u, cid, sid) ==
    /\ creq[c].pc = "idle"
    /\ \A d \in Creators : d < c => creq[d].pc # "idle"
    /\ MayStart
    /\ now + OrderTimeout < MaxTime
    /\ LET why == create_order_check(u, cid, sid)
       IN  IF why # ""
           THEN /\ ret' = Return("create_order", FALSE, why, 0, FALSE)
                /\ creq' = creq
           ELSE /\ creq' = [creq EXCEPT ![c] =
                              [IdleCreate EXCEPT
                                  !.pc = "reserve", !.user = u,
                                  !.price = order_price(cid, sid),
                                  !.snap = balance[u]]]
                /\ ret' = NoReturn
    /\ UNCHANGED <<data, connections, keys, fanout, queues, streams, dummy, send_raises>>
    /\ UNCHANGED <<now, balance, orders, messages, provider, released, events,
                   xreq, timer, sweep, refunds, expiries, applied, timers>>

\* The external id the provider gives its next reservation: one that no
\* order and no create_order call in flight holds.  (An id whose order was
\* never committed is held by nothing; the ids are interchangeable.)
HeldExt ==
    {orders[o].ext : o \in Rows} \cup {creq[c].ext : c \in Creators}
NextExt ==
    IF ExtIds \ HeldExt = {} THEN 0
    ELSE CHOOSE e \in ExtIds \ HeldExt : \A f \in ExtIds \ HeldExt : f <= e

\* _order_phone_number and the check of its result: no provider, a provider
\* call that raises, and a result without success all return None.
CreateReserve(c) ==
    /\ creq[c].pc = "reserve"
    /\ IF ~provider
       THEN /\ ret' = Return("create_order", FALSE, "no_provider", 0, FALSE)
            /\ creq' = [creq EXCEPT ![c] = IdleCreate]
       ELSE \/ \E why \in {"provider_raised", "provider_failed"} :
                 /\ ret' = Return("create_order", FALSE, why, 0, FALSE)
                 /\ creq' = [creq EXCEPT ![c] = IdleCreate]
                 \/ \E ph \in PoolPhones :
                 /\ NextExt \in ExtIds
                 /\ creq' = [creq EXCEPT ![c].pc = "commit",
                                         ![c].phone = ph,
                                         ![c].ext = NextExt]
                 /\ ret' = NoReturn
    /\ UNCHANGED <<data, connections, keys, fanout, queues, streams, dummy, send_raises>>
    /\ UNCHANGED <<now, balance, orders, messages, provider, released,
                   events, xreq, timer, sweep, refunds, expiries, applied,
                   timers>>

\* The Order create_order builds (lines 81-91).
new_order(r) ==
    [status |-> "pending", user |-> r.user, price |-> r.price,
     phone |-> r.phone, ext |-> r.ext, expires_at |-> now + OrderTimeout]

\* What the commit of create_order writes to users.balance: the balance the
\* call loaded, less the price (user.balance -= price on the loaded row).
create_order_balance(r) == r.snap - r.price

\* create_order from the debit to the return (lines 93-111).
\*   "commit"  : db.commit() raises; except branch, rollback, None.
\*   "refresh" : db.commit() succeeds and db.refresh(order) raises; except
\*               branch, the rollback has nothing left to undo, None.
\*   "ok"      : the monitor task is created and the order returned.
CreateCommit(c) ==
    /\ creq[c].pc = "commit"
    /\ NextId \in OrderIds
    /\ LET r == creq[c]
           o == NextId
       IN  \E outcome \in {"commit", "refresh", "ok"} :
             /\ creq' = [creq EXCEPT ![c] = IdleCreate]
             /\ IF outcome = "commit"
                THEN /\ ret' = Return("create_order", FALSE, "db", 0, FALSE)
                     /\ UNCHANGED <<balance, orders, timer, timers>>
                ELSE /\ balance' = [balance EXCEPT
                                        ![r.user] = create_order_balance(r)]
                     /\ orders' = [orders EXCEPT ![o] = new_order(r)]
                     /\ IF outcome = "refresh"
                        THEN /\ ret' = Return("create_order", FALSE,
                                              "refresh", o, TRUE)
                             /\ UNCHANGED <<timer, timers>>
                        ELSE /\ ret' = Return("create_order", TRUE, "", o,
                                              TRUE)
                             /\ timer' = [timer EXCEPT ![o] =
                                    [NoTimer EXCEPT
                                        !.pc = "sleep",
                                        !.wake = now + OrderTimeout]]
                             /\ timers' = [timers EXCEPT ![o] = @ + 1]
    /\ UNCHANGED <<data, connections, keys, fanout, queues, streams, dummy, send_raises>>
    /\ UNCHANGED <<now, messages, provider, released, events,
                   xreq, sweep, refunds, expiries, applied>>

\* ------------------------------------------------------------- cancel_order

\* The select of cancel_order without its condition on the status.
cancel_order_query_any_status(oid, u) ==
    IF /\ orders[oid].status # "absent"
       /\ orders[oid].user = u
    THEN oid ELSE 0

\* The select of cancel_order (lines 116-125): the row with this id, this
\* owner and status pending; 0 when there is none.
cancel_order_query(oid, u) ==
    IF /\ oid \in Rows
       /\ orders[oid].user = u
       /\ orders[oid].status = "pending"
    THEN oid ELSE 0

\* cancel_order up to its first return: the select, and False when it finds
\* no row.
cancel_order_starts(x, oid, u) ==
    /\ xreq[x].pc = "idle"
    /\ IF cancel_order_query(oid, u) = 0
       THEN /\ ret' = Return("cancel_order", FALSE,
                             IF oid \notin Rows THEN "missing"
                             ELSE IF orders[oid].user # u THEN "owner"
                             ELSE "status",
                             0, FALSE)
            /\ xreq' = xreq
       ELSE /\ xreq' = [xreq EXCEPT ![x] =
                          [IdleCancel EXCEPT !.pc = "release",
                                             !.order = oid, !.user = u]]
            /\ ret' = NoReturn
    /\ UNCHANGED <<data, connections, keys, fanout, queues, streams, dummy, send_raises>>
    /\ UNCHANGED <<now, balance, orders, messages, provider, released, events,
                   creq, timer, sweep, refunds, expiries, applied, timers>>

\* cancel_order is called while another handler may start.
CancelStart(x, oid, u) == MayStart /\ cancel_order_starts(x, oid, u)

\* The provider call of cancel_order and of _expire_order:
\*   if order.external_order_id and self.sms_provider:
\*       try: await self.sms_provider.cancel_number(...) except: log
\* The ways the call can end: it is skipped, it returns, or it raises.
cancel_number_outcomes(o) ==
    IF orders[o].ext # 0 /\ provider THEN {"ok", "raised"} ELSE {"skipped"}

\* released records that the provider was asked.
provider_cancel(o, outcome) ==
    released' = IF outcome = "skipped" THEN released
                ELSE released \cup {orders[o].ext}

\* A handler whose provider call raised aborts.
abort_on_release_failure(outcome) ==
    IF outcome = "raised" THEN "abort" ELSE "go_on"

\* What the handler does after the call: the except branch logs a warning
\* and the handler goes on as after a call that returned.
after_release(outcome) == "go_on"

\* The branch a handler that went through the provider call returns from:
\* "warned" after the logged warning of the except branch.
release_branch(rel) == IF rel = "raised" THEN "warned" ELSE ""

\* cancel_order, lines 131-136.
CancelRelease(x) ==
    /\ xreq[x].pc = "release"
    /\ \E outcome \in cancel_number_outcomes(xreq[x].order) :
         /\ provider_cancel(xreq[x].order, outcome)
         /\ IF after_release(outcome) = "go_on"
            THEN /\ xreq' = [xreq EXCEPT ![x].pc = "user",
                                         ![x].rel = outcome]
                 /\ ret' = NoReturn
            ELSE /\ xreq' = [xreq EXCEPT ![x] = IdleCancel]
                 /\ ret' = Return("cancel_order", FALSE, "release", 0,
                                  FALSE)
    /\ UNCHANGED <<data, connections, keys, fanout, queues, streams, dummy, send_raises>>
    /\ UNCHANGED <<now, balance, orders, messages, provider, events, creq,
                   timer, sweep, refunds, expiries, applied, timers>>

\* cancel_order, lines 139-142: the user row is loaded.
CancelUserRead(x) ==
    /\ xreq[x].pc = "user"
    /\ xreq' = [xreq EXCEPT ![x].pc = "commit",
                            ![x].snap = balance[xreq[x].user]]
    /\ UNCHANGED <<data, connections, keys, fanout, queues, streams, dummy, send_raises>>
    /\ UNCHANGED <<now, balance, orders, messages, provider, released, events,
                   creq, timer, sweep, refunds, expiries, applied, timers>>
    /\ ret' = NoReturn

\* _notify_order_status_change: one order_status_updated event for the owner.
status_events(o, status) ==
    {Event(orders[o].user, "order_status_updated", o, status)}

\* _notify_frontend: sms_received, then order_status_updated, for the owner.
sms_events(o) ==
    {Event(orders[o].user, "sms_received", o, "received"),
     Event(orders[o].user, "order_status_updated", o, "received")}

\* A notification that is sent whether or not the handler got to it.
notify_unconditionally(reached, evs) == evs

\* The notification call is the last statement of the try block, after the
\* commit: its events are published when the statements before it did not
\* raise and send_to_user does not raise either (_notify_frontend has both
\* of its sends in one try block, so the first failure skips the second).
notify(reached, evs) == IF reached /\ ~send_raises THEN evs ELSE {}

\* A handler whose result is lost when the send raised.
returns_unless_send_raised(result) == result /\ ~send_raises

\* _notify_order_status_change and _notify_frontend catch every Exception of
\* the send and log it; the handler goes on to its own return statement.
returns_after_notify(result) == result

\* A refund whose status is committed and whose credit is not.
refund_commit_status_first(o, newbal, status) ==
    /\ balance' = balance
    /\ orders' = [orders EXCEPT ![o].status = status]
    /\ refunds' = refunds
    /\ events' = events \cup notify(TRUE, status_events(o, status))

\* A commit of a refund that deletes the order and its messages.
refund_commit_and_delete(o, newbal, status) ==
    /\ balance' = [balance EXCEPT ![orders[o].user] = newbal]
    /\ orders' = [orders EXCEPT ![o] = NoOrder]
    /\ refunds' = [refunds EXCEPT ![o] = @ + 1]
    /\ events' = events \cup notify(TRUE, status_events(o, status))

\* The commit of a refund: the user row is written with the balance the
\* session holds for it and the order row with the new status, then
\* _notify_order_status_change publishes the status.
refund_commit(o, newbal, status) ==
    /\ balance' = [balance EXCEPT ![orders[o].user] = newbal]
    /\ orders' = [orders EXCEPT ![o].status = status]
    /\ refunds' = [refunds EXCEPT ![o] = @ + 1]
    /\ events' = events \cup notify(TRUE, status_events(o, status))

\* cancel_order, lines 144-161: the credit, the status, the commit, the
\* notification, True; a commit that raises ends in rollback and False.
CancelCommit(x) ==
    /\ xreq[x].pc = "commit"
    /\ LET o == xreq[x].order
       IN  \E raised \in BOOLEAN :
             IF raised
             THEN /\ ret' = Return("cancel_order", FALSE, "db", 0, FALSE)
                  /\ events' = events \cup
                        notify(FALSE, status_events(o, "cancelled"))
                  /\ UNCHANGED <<balance, orders, refunds>>
             ELSE /\ refund_commit(o, xreq[x].snap + orders[o].price,
                                   "cancelled")
                  /\ ret' = Return("cancel_order", returns_after_notify(TRUE),
                                   release_branch(xreq[x].rel), o, TRUE)
    /\ xreq' = [xreq EXCEPT ![x] = IdleCancel]
    /\ UNCHANGED <<data, connections, keys, fanout, queues, streams, dummy, send_raises>>
    /\ UNCHANGED <<now, messages, provider, released, creq, timer,
                   sweep, expiries, applied, timers>>

\* ------------------------------------------------ _monitor_order_expiration

\* A monitor that expires the order it finds, whatever its status.
monitor_wakes_unchecked(o) ==
    /\ timer[o].pc = "sleep"
    /\ now >= timer[o].wake
    /\ timer' = [timer EXCEPT ![o].pc =
                    IF o \in Rows
                    THEN "user" ELSE "done"]
    /\ UNCHANGED <<data, connections, keys, fanout, queues, streams, dummy, send_raises>>
    /\ UNCHANGED <<now, balance, orders, messages, provider, released, events,
                   creq, xreq, sweep, refunds, expiries, applied, timers>>
    /\ ret' = NoReturn

\* The monitor task after its sleep (lines 195-210): the order row is
\* loaded; the task goes on to _expire_order only if it is pending.
monitor_wakes(o) ==
    /\ timer[o].pc = "sleep"
    /\ now >= timer[o].wake
    /\ timer' = [timer EXCEPT ![o].pc =
                    IF o \in Rows /\ orders[o].status = "pending"
                    THEN "user" ELSE "done"]
    /\ UNCHANGED <<data, connections, keys, fanout, queues, streams, dummy, send_raises>>
    /\ UNCHANGED <<now, balance, orders, messages, provider, released, events,
                   creq, xreq, sweep, refunds, expiries, applied, timers>>
    /\ ret' = NoReturn

\* The monitor wakes while another handler may start.
TimerWake(o) == MayStart /\ monitor_wakes(o)

\* _expire_order, lines 223-226, in the monitor's session.
TimerUserRead(o) ==
    /\ timer[o].pc = "user"
    /\ timer' = [timer EXCEPT ![o].pc = "release",
                              ![o].snap = balance[orders[o].user]]
    /\ UNCHANGED <<data, connections, keys, fanout, queues, streams, dummy, send_raises>>
    /\ UNCHANGED <<now, balance, orders, messages, provider, released, events,
                   creq, xreq, sweep, refunds, expiries, applied, timers>>
    /\ ret' = NoReturn

\* _expire_order, lines 228-239, in the monitor's session: the credit and
\* the status are set on the loaded rows, then the provider is called.
TimerRelease(o) ==
    /\ timer[o].pc = "release"
    /\ \E outcome \in cancel_number_outcomes(o) :
         /\ provider_cancel(o, outcome)
         /\ IF after_release(outcome) = "go_on"
            THEN /\ timer' = [timer EXCEPT ![o].pc = "commit",
                                           ![o].rel = outcome]
                 /\ ret' = NoReturn
            ELSE /\ timer' = [timer EXCEPT ![o] =
                                 [NoTimer EXCEPT !.pc = "done"]]
                 /\ ret' = Return("_expire_order", FALSE, "release", 0,
                                  FALSE)
    /\ UNCHANGED <<data, connections, keys, fanout, queues, streams, dummy, send_raises>>
    /\ UNCHANGED <<now, balance, orders, messages, provider, events, creq,
                   xreq, sweep, refunds, expiries, applied, timers>>

\* _expire_order, lines 241-249, in the monitor's session: the commit and
\* the notification, or the except branch with its rollback.
TimerCommit(o) ==
    /\ timer[o].pc = "commit"
    /\ \E raised \in BOOLEAN :
         IF raised
         THEN /\ events' = events \cup
                    notify(FALSE, status_events(o, "expired"))
              /\ UNCHANGED <<balance, orders, refunds, expiries>>
              /\ ret' = Return("_expire_order", FALSE, "db", 0, FALSE)
         ELSE /\ refund_commit(o, timer[o].snap + orders[o].price, "expired")
              /\ expiries' = [expiries EXCEPT ![o] = @ + 1]
              /\ ret' = Return("_expire_order", returns_after_notify(TRUE),
                               release_branch(timer[o].rel), o, TRUE)
    /\ timer' = [timer EXCEPT ![o] = [NoTimer EXCEPT !.pc = "done"]]
    /\ UNCHANGED <<data, connections, keys, fanout, queues, streams, dummy, send_raises>>
    /\ UNCHANGED <<now, messages, provider, released, creq, xreq, sweep,
                   applied, timers>>

\* --------------------------------------------------- cleanup_expired_orders

\* The select of cleanup_expired_orders (lines 282-290).
expired_orders ==
    {o \in Rows : orders[o].status = "pending" /\ orders[o].expires_at < now}

\* The orders of a result set in the orders the storage may return them in.
RECURSIVE result_lists(_)
result_lists(S) ==
    IF S = {} THEN {<<>>}
    ELSE UNION {{<<o>> \o l : l \in result_lists(S \ {o})} : o \in S}

\* One cleanup cycle starts: a new session, the past-due pending orders are
\* loaded.  A cycle that finds none ends at once and changes nothing.
SweepSelect ==
    /\ sweep.pc = "idle"
    /\ MayStart
    /\ expired_orders # {}
    /\ \E l \in result_lists(expired_orders) :
         sweep' = [IdleSweep EXCEPT !.pc = "user", !.todo = l]
    /\ UNCHANGED <<data, connections, keys, fanout, queues, streams, dummy, send_raises>>
    /\ UNCHANGED <<now, balance, orders, messages, provider, released, events,
                   creq, xreq, timer, refunds, expiries, applied, timers>>
    /\ ret' = NoReturn

\* _expire_order, lines 223-226, in the cleanup session: the select returns
\* the user row the session already holds, if it holds one.
SweepUserRead ==
    /\ sweep.pc = "user"
    /\ LET u == orders[Head(sweep.todo)].user
       IN  sweep' = [sweep EXCEPT
                        !.pc = "release",
                        !.cache[u] = IF @ = -1 THEN balance[u] ELSE @]
    /\ UNCHANGED <<data, connections, keys, fanout, queues, streams, dummy, send_raises>>
    /\ UNCHANGED <<now, balance, orders, messages, provider, released, events,
                   creq, xreq, timer, refunds, expiries, applied, timers>>
    /\ ret' = NoReturn

\* _expire_order, lines 228-239, in the cleanup session.
SweepRelease ==
    /\ sweep.pc = "release"
    /\ \E outcome \in cancel_number_outcomes(Head(sweep.todo)) :
         /\ provider_cancel(Head(sweep.todo), outcome)
         /\ IF after_release(outcome) = "go_on"
            THEN /\ sweep' = [sweep EXCEPT !.pc = "commit",
                                           !.rel = outcome]
                 /\ ret' = NoReturn
            ELSE /\ sweep' = IdleSweep
                 /\ ret' = Return("_expire_order", FALSE, "release", 0,
                                  FALSE)
    /\ UNCHANGED <<data, connections, keys, fanout, queues, streams, dummy, send_raises>>
    /\ UNCHANGED <<now, balance, orders, messages, provider, events, creq,
                   xreq, timer, refunds, expiries, applied, timers>>

\* _expire_order, lines 241-249, in the cleanup session.  After a commit that
\* raises, the rollback expires every row of the session and the remaining
\* orders of the cycle fail on their first attribute access.
SweepCommit ==
    /\ sweep.pc = "commit"
    /\ LET o == Head(sweep.todo)
           u == orders[o].user
           newbal == sweep.cache[u] + orders[o].price
           rest == Tail(sweep.todo)
       IN  \E raised \in BOOLEAN :
                IF raised
                THEN /\ sweep' = IdleSweep
                     /\ events' = events \cup
                           notify(FALSE, status_events(o, "expired"))
                     /\ UNCHANGED <<balance, orders, refunds, expiries>>
                     /\ ret' = Return("_expire_order", FALSE, "db", 0,
                                      FALSE)
                ELSE /\ refund_commit(o, newbal, "expired")
                     /\ expiries' = [expiries EXCEPT ![o] = @ + 1]
                     /\ sweep' = IF rest = <<>> THEN IdleSweep
                                 ELSE [sweep EXCEPT !.pc = "user",
                                                    !.todo = rest,
                                                    !.cache[u] = newbal,
                                                    !.rel = ""]
                     /\ ret' = Return("_expire_order",
                                      returns_after_notify(TRUE),
                                      release_branch(sweep.rel), o, TRUE)
    /\ UNCHANGED <<data, connections, keys, fanout, queues, streams, dummy, send_raises>>
    /\ UNCHANGED <<now, messages, provider, released, creq, xreq, timer,
                   applied, timers>>

\* ------------------------------------------------ _process_validated_webhook

\* SMSValidator.validate_order_status_transition
valid_transitions ==
    [pending |-> {"received", "expired", "cancelled"},
     received |-> {}, expired |-> {}, cancelled |-> {}]

\* A validation that lets every transition through.
validate_any_transition(current_status, new_status) == TRUE

validate_order_status_transition(current_status, new_status) ==
    /\ current_status \in DOMAIN valid_transitions
    /\ new_status \in valid_transitions[current_status]

\* The Message row _process_validated_webhook stores, code <<>> for None.
Message(text, code) == [text |-> text, code |-> code]

\* SMSValidator.is_message_duplicate on sanitized texts.
is_message_duplicate(existing_messages, new_message_text) ==
    \E i \in 1..Len(existing_messages) :
        existing_messages[i].text = new_message_text

\* _find_order: the rows each of its three queries matches; .first() of a
\* query without ORDER BY returns any of them.
\* A lookup whose last query leaves the phone number out.
find_order_any_pending(order_id, phone_number) ==
    LET by_id == {o \in Rows : o = order_id}
        by_ext == {o \in Rows : orders[o].ext = order_id}
        by_phone == {o \in Rows : orders[o].status = "pending"}
    IN  IF by_id # {} THEN by_id
        ELSE IF by_ext # {} THEN by_ext
        ELSE by_phone

\* A lookup that tries the phone number before the identifiers.
find_order_phone_first(order_id, phone_number) ==
    LET by_id == {o \in Rows : o = order_id}
        by_ext == {o \in Rows : orders[o].ext = order_id}
        by_phone == {o \in Rows : /\ orders[o].phone = phone_number
                                  /\ orders[o].status = "pending"}
    IN  IF by_phone # {} THEN by_phone
        ELSE IF by_id # {} THEN by_id
        ELSE by_ext

find_order(order_id, phone_number) ==
    LET by_id == {o \in Rows : o = order_id}
        by_ext == {o \in Rows : orders[o].ext = order_id}
        by_phone == {o \in Rows : /\ orders[o].phone = phone_number
                                  /\ orders[o].status = "pending"}
    IN  IF by_id # {} THEN by_id
        ELSE IF by_ext # {} THEN by_ext
        ELSE by_phone

\* A handler that leaves no message out.
message_never_suppressed(o, text) == ""

\* Why _process_validated_webhook leaves a message for order o out (lines
\* 60-69): "transition" when the order may not become received, "duplicate"
\* when a stored message has this text, "" when the message is applied.
message_suppressed(o, text) ==
    IF ~validate_order_status_transition(orders[o].status, "received")
    THEN "transition"
    ELSE IF is_message_duplicate(messages[o], text) THEN "duplicate"
    ELSE ""

\* _process_validated_webhook with a validated payload, and the except
\* branch of process_webhook around it.  The handler uses a synchronous
\* session and does not await before its commit: it runs from the lookup to
\* the commit without another task of the event loop running.
\*   "commit"  : db.commit() raises; process_webhook returns False.
\*   "refresh" : db.commit() succeeds and db.refresh raises; nothing is
\*               published and process_webhook returns False.
\*   "ok"      : both events are published, True.
ProcessWebhook(order_id, phone_number, text, code) ==
    /\ LET found == find_order(order_id, phone_number)
       IN  IF found = {}
           THEN /\ ret' = Return("process_webhook", FALSE, "not_found", 0,
                                 FALSE)
                /\ UNCHANGED <<orders, messages, events, applied>>
           ELSE \E o \in found :
                IF message_suppressed(o, text) = "transition"
                THEN /\ ret' = Return("process_webhook", FALSE, "transition",
                                      o, FALSE)
                     /\ UNCHANGED <<orders, messages, events, applied>>
                ELSE IF message_suppressed(o, text) = "duplicate"
                THEN /\ ret' = Return("process_webhook", TRUE, "duplicate",
                                      o, FALSE)
                     /\ UNCHANGED <<orders, messages, events, applied>>
                ELSE \E outcome \in {"commit", "refresh", "ok"} :
                     IF outcome = "commit"
                     THEN /\ ret' = Return("process_webhook", FALSE, "db",
                                           0, FALSE)
                          /\ events' = events \cup
                                notify(FALSE, sms_events(o))
                          /\ UNCHANGED <<orders, messages, applied>>
                     ELSE /\ messages' = [messages EXCEPT
                                             ![o] = Append(@, Message(text, code))]
                          /\ orders' = [orders EXCEPT
                                           ![o].status = "received"]
                          /\ applied' = [applied EXCEPT ![o] = @ + 1]
                          /\ events' = events \cup
                                notify(outcome = "ok", sms_events(o))
                          /\ ret' = IF outcome = "refresh"
                                    THEN Return("process_webhook", FALSE,
                                                "refresh", o, TRUE)
                                    ELSE Return("process_webhook",
                                                returns_after_notify(TRUE),
                                                "", o, TRUE)
    /\ UNCHANGED <<data, connections, keys, fanout, queues, streams, dummy, send_raises>>
    /\ UNCHANGED <<now, balance, provider, released, creq, xreq,
                   timer, sweep, refunds, expiries, timers>>

\* The characters of the phone numbers: "p1" as the provider gives it, "p2"
\* written with separators.
PhoneText ==
    [p1 |-> <<"+", "7", "7", "7", "7", "7", "7", "7", "7", "7", "7", "7">>,
     p2 |-> <<"+", "7", "-", "7", "7", "7", "-", "7", "7", "7", "7", "7",
              "7">>]

\* Phone numbers of payloads that belong to no order: "+" with nine digits,
\* and "+" with sixteen.
ShortPhone == <<"+", "7", "7", "7", "7", "7", "7", "7", "7", "7">>
LongPhone ==
    <<"+", "7", "7", "7", "7", "7", "7", "7", "7", "7", "7", "7", "7", "7",
      "7", "7", "7">>
NoPhone == "p0"

\* The phone number of an order that a payload's phone_number equals.
phone_token(s) ==
    IF \E p \in Phones : PhoneText[p] = s
    THEN CHOOSE p \in Phones : PhoneText[p] = s
    ELSE NoPhone

\* The payloads that are posted: every field given, with the phone number
\* of an order or another one, or one field missing or empty.
WebhookData ==
    {Payload(Field("value", ref), Field("value", PhoneText[p]),
             Field("value", t)) :
        ref \in OrderIds \cup ExtIds \cup {NoRef}, p \in Phones, t \in Texts}
    \cup
    {Payload(Field("value", 1), Field("value", s), Field("value", SmsText)) :
        s \in {ShortPhone, LongPhone}}
    \cup
    {Payload(Field(st, 0), Field("value", PhoneText["p1"]),
             Field("value", SmsText)) : st \in {"missing", "empty"}}
    \cup
    {Payload(Field("value", 1), Field(st, <<>>), Field("value", SmsText)) :
        st \in {"missing", "empty"}}
    \cup
    {Payload(Field("value", 1), Field("value", PhoneText["p1"]),
             Field(st, <<>>)) : st \in {"missing", "empty"}}

\* The message texts extract_verification_code is applied to: up to
\* MaxTextTokens pieces put one after the other, each a run of four, seven or
\* three digits or a single other character.
MaxTextTokens == 5

TextTokens ==
    {<<"1", "1", "1", "1">>, <<"2", "2", "2", "2">>,
     <<"1", "1", "1", "1", "1", "1", "1">>, <<"2", "2", "2">>,
     <<" ">>, <<":">>, <<"K">>, <<"C">>, <<"a">>}

RECURSIVE TextsOf(_)
TextsOf(n) ==
    IF n = 0 THEN {<<>>}
    ELSE LET shorter == TextsOf(n - 1)
         IN  shorter \cup {s \o t : s \in shorter, t \in TextTokens}

\* The texts of the payloads posted for the first order alone.
MaxSmsTokens == 2
SmsTexts == TextsOf(MaxSmsTokens) \ {<<>>}
SmsData ==
    {Payload(Field("value", 1), Field("value", PhoneText["p1"]),
             Field("value", t)) : t \in SmsTexts}

\* What validate_webhook_data returns for each payload that is posted, the
\* order phone number each payload holds, and the message_text and the code
\* of the validated data.
validated == [d \in WebhookData \cup SmsData |-> validate_webhook_data(d)]
tokens ==
    [d \in WebhookData \cup SmsData |-> phone_token(d.phone_number.value)]
texts ==
    [d \in WebhookData \cup SmsData |->
        sanitize_message_text(d.message_text.value)]
codes ==
    [d \in WebhookData \cup SmsData |-> extract_verification_code(texts[d])]

\* process_webhook: the payload is validated; a payload that fails returns
\* False before a session is opened, any other goes to
\* _process_validated_webhook.
ReceiveWebhook(d) ==
    IF validated[d] # ""
    THEN /\ ret' = Return("process_webhook", FALSE, "validation", 0, FALSE)
         /\ UNCHANGED <<data, connections, keys, fanout, queues, streams, dummy, send_raises, now, balance, orders, messages, provider,
                        released, events, creq, xreq, timer, sweep, refunds,
                        expiries, applied, timers>>
    ELSE ProcessWebhook(d.order_id.value, tokens[d], texts[d], codes[d])

\* ----------------------------------------------------------- specification

Next ==
    \/ Tick
    \/ \E c \in Creators, q \in Requests : CreateStart(c, q[1], q[2], q[3])
    \/ \E c \in Creators : CreateReserve(c)
    \/ \E c \in Creators : CreateCommit(c)
    \/ \E x \in Cancellers, oid \in OrderIds, u \in Users :
          CancelStart(x, oid, u)
    \/ \E x \in Cancellers : CancelRelease(x)
    \/ \E x \in Cancellers : CancelUserRead(x)
    \/ \E x \in Cancellers : CancelCommit(x)
    \/ \E o \in OrderIds : TimerWake(o)
    \/ \E o \in OrderIds : TimerUserRead(o)
    \/ \E o \in OrderIds : TimerRelease(o)
    \/ \E o \in OrderIds : TimerCommit(o)
    \/ SweepSelect
    \/ SweepUserRead
    \/ SweepRelease
    \/ SweepCommit
    \/ \E d \in WebhookData : ReceiveWebhook(d)

Spec == Init /\ [][Next]_vars

\* The same service whose notification hub may raise on every send.
NotifyInit == Constructed /\ send_raises \in BOOLEAN

NotifySpec == NotifyInit /\ [][Next]_vars

\* ------------------------------------------------------- lookups alone

\* The order rows a table may hold: any status, any phone, and an external
\* id that the provider chose, which may be the id of an order.
StoredRows ==
    {NoOrder} \cup
    [status : {"pending", "received", "cancelled", "expired"},
     user : {"u1"}, price : {2}, phone : Phones,
     ext : ExtIds \cup OrderIds, expires_at : {OrderTimeout}]

Refs == OrderIds \cup ExtIds \cup {NoRef}

FindInit ==
    /\ orders \in [OrderIds -> StoredRows]
    /\ data = NoData
    /\ connections = [u \in Users |-> <<>>]
    /\ keys = {}
    /\ fanout = NoFanout
    /\ queues = [q \in QueueIds |-> <<>>]
    /\ streams = [q \in QueueIds |-> NoStream]
    /\ dummy = [id \in DummyIds |-> NoReservation]
    /\ send_raises = FALSE
    /\ now = 0
    /\ balance = [u \in Users |-> start_balance(u)]
    /\ messages = [o \in OrderIds |-> <<>>]
    /\ provider = TRUE
    /\ released = {}
    /\ events = {}
    /\ creq = [c \in Creators |-> IdleCreate]
    /\ xreq = [x \in Cancellers |-> IdleCancel]
    /\ timer = [o \in OrderIds |-> NoTimer]
    /\ sweep = IdleSweep
    /\ ret = NoReturn
    /\ refunds = [o \in OrderIds |-> 0]
    /\ expiries = [o \in OrderIds |-> 0]
    /\ applied = [o \in OrderIds |-> 0]
    /\ timers = [o \in OrderIds |-> 0]

\* _find_order is called and returns an order or None.  A query that several
\* rows match returns any one of them: first() without an ordering.
Lookup(order_id, phone_number) ==
    /\ LET found == find_order(order_id, phone_number)
       IN  IF found = {}
           THEN ret' = Return("_find_order", FALSE, "", 0, FALSE)
           ELSE \E o \in found :
                  ret' = Return("_find_order", TRUE, "", o, FALSE)
    /\ UNCHANGED <<data, connections, keys, fanout, queues, streams, dummy, send_raises>>
    /\ UNCHANGED <<now, balance, orders, messages, provider, released, events,
                   creq, xreq, timer, sweep, refunds, expiries, applied,
                   timers>>

FindNext == \E ref \in Refs, ph \in Phones : Lookup(ref, ph)

FindSpec == FindInit /\ [][FindNext]_vars

\* ------------------------------------------------------ validation alone

\* The phone numbers validate_phone_number is applied to: up to
\* MaxPhoneDigits digits with up to two other characters, "+" or "-", put
\* anywhere among them.
MaxPhoneDigits == 17

DigitRun(n) == [i \in 1..n |-> "7"]
InsertChar(s, i, c) == SubSeq(s, 1, i) \o <<c>> \o SubSeq(s, i + 1, Len(s))
WithOneMore(S) ==
    UNION {{InsertChar(s, i, c) : i \in 0..Len(s), c \in {"+", "-"}} :
              s \in S}
PhoneStrings ==
    LET runs == {DigitRun(n) : n \in 0..MaxPhoneDigits}
    IN  runs \cup WithOneMore(runs) \cup WithOneMore(WithOneMore(runs))

PhoneInit ==
    /\ data \in {Payload(Field("value", 1), Field("value", s),
                          Field("value", SmsText)) : s \in PhoneStrings}
    /\ connections = [u \in Users |-> <<>>]
    /\ keys = {}
    /\ fanout = NoFanout
    /\ queues = [q \in QueueIds |-> <<>>]
    /\ streams = [q \in QueueIds |-> NoStream]
    /\ dummy = [id \in DummyIds |-> NoReservation]
    /\ send_raises = FALSE
    /\ now = 0
    /\ balance = [u \in Users |-> start_balance(u)]
    /\ orders = [o \in OrderIds |-> NoOrder]
    /\ messages = [o \in OrderIds |-> <<>>]
    /\ provider = TRUE
    /\ released = {}
    /\ events = {}
    /\ creq = [c \in Creators |-> IdleCreate]
    /\ xreq = [x \in Cancellers |-> IdleCancel]
    /\ timer = [o \in OrderIds |-> NoTimer]
    /\ sweep = IdleSweep
    /\ ret = NoReturn
    /\ refunds = [o \in OrderIds |-> 0]
    /\ expiries = [o \in OrderIds |-> 0]
    /\ applied = [o \in OrderIds |-> 0]
    /\ timers = [o \in OrderIds |-> 0]

\* validate_phone_number is applied to the phone number of the payload.
ValidatePhoneNumber ==
    /\ ret' = Return("validate_phone_number",
                     validate_phone_number(data.phone_number.value), "", 0,
                     FALSE)
    /\ UNCHANGED <<data, connections, keys, fanout, queues, streams, dummy, send_raises>>
    /\ UNCHANGED <<now, balance, orders, messages, provider, released, events,
                   creq, xreq, timer, sweep, refunds, expiries, applied,
                   timers>>

PhoneNext == ValidatePhoneNumber

PhoneSpec == PhoneInit /\ [][PhoneNext]_vars

\* -------------------------------------------------------------- SSEManager

\* What the handlers of orders hold; the manager of the streams leaves it.
order_vars ==
    <<data, fanout, dummy, send_raises, now, balance, orders, messages, provider, released,
      events, creq, xreq, timer, sweep, refunds, expiries, applied, timers>>

EventTypes == {"order_status_updated", "sms_received"}

\* _format_sse_message: the record of the event, its data left out.
format_sse_message(event_type) == <<"event", event_type>>

Range(s) == {s[i] : i \in DOMAIN s}

\* get_connection_count
get_connection_count(user_id) ==
    IF user_id \in keys THEN Len(connections[user_id]) ELSE 0

\* get_total_connections: the sum of the lengths of the lists of the keys.
RECURSIVE sum_of_lengths(_)
sum_of_lengths(ks) ==
    IF ks = {} THEN 0
    ELSE LET k == CHOOSE k \in ks : TRUE
         IN  Len(connections[k]) + sum_of_lengths(ks \ {k})

get_total_connections == sum_of_lengths(keys)

\* create_sse_stream with a response that takes the welcome message at
\* once: connect makes a new queue and appends it to the list of the user,
\* and the stream enters its loop.
Connect(user_id) ==
    /\ \E q \in QueueIds :
          /\ streams[q].pc = "none"
          /\ \A p \in QueueIds : streams[p].pc = "none" => q <= p
          /\ connections' = [connections EXCEPT ![user_id] = Append(@, q)]
          /\ keys' = keys \cup {user_id}
          /\ streams' = [streams EXCEPT ![q] =
                            [pc |-> "open", user_id |-> user_id]]
    /\ ret' = Return("connect", TRUE, "", 0, FALSE)
    /\ UNCHANGED <<queues, order_vars>>

\* disconnect: the queue is removed from the list of the user; a queue that
\* is not in the list is passed over.
disconnect(user_id, queue) ==
    [connections EXCEPT
        ![user_id] = SelectSeq(@, LAMBDA q : q # queue)]

\* A disconnect that leaves the key of the user.
delete_never(user_id, list) == keys

\* disconnect: "if not self.connections[user_id]: del".
delete_empty(user_id, list) ==
    IF list = <<>> THEN keys \ {user_id} ELSE keys

\* The keys after disconnect: a user without a key and a queue that is not
\* in the list (ValueError) leave them.
disconnect_keys(user_id, queue) ==
    IF user_id \in keys /\ queue \in Range(connections[user_id])
    THEN delete_empty(user_id, disconnect(user_id, queue)[user_id])
    ELSE keys

\* "await queue.put(message)" raises: asyncio.Queue() has no maxsize and no
\* closed state, put appends and returns.
put_raises(queue) == FALSE

\* A send that reaches the queues of every user.
queues_of_everyone(user_id) ==
    UNION {Range(connections[u]) : u \in Users}

\* The queues send_to_user puts the message in.
queues_of(user_id) == Range(connections[user_id])

\* The queues after send_to_user has put its message in those of the user
\* that took it.
sent(qs, user_id, event_type) ==
    [q \in QueueIds |->
        IF q \in queues_of(user_id) /\ ~put_raises(q)
        THEN Append(qs[q], format_sse_message(event_type))
        ELSE qs[q]]

\* send_to_user.  No step of it suspends: put on a queue without maxsize
\* and disconnect do not wait.
SendToUser(user_id, event_type) ==
    /\ \A q \in queues_of(user_id) : Len(queues[q]) < MaxQueued
    /\ IF user_id \notin keys
       THEN UNCHANGED <<connections, keys, queues>>
       ELSE LET disconnected_queues ==
                    {q \in queues_of(user_id) : put_raises(q)}
            IN  /\ queues' = sent(queues, user_id, event_type)
                /\ connections' =
                      [connections EXCEPT
                          ![user_id] =
                             SelectSeq(@, LAMBDA q :
                                            q \notin disconnected_queues)]
                /\ keys' =
                      IF disconnected_queues = {} THEN keys
                      ELSE delete_empty(user_id,
                              SelectSeq(connections[user_id], LAMBDA q :
                                          q \notin disconnected_queues))
    /\ ret' = Return("send_to_user", TRUE, "", 0, FALSE)
    /\ UNCHANGED <<streams, order_vars>>

\* event_stream up to "yield welcome_message": connect makes a new queue and
\* appends it to the list of the user, and the stream is suspended with the
\* welcome message handed to the response.
StreamStart(user_id) ==
    /\ \E q \in QueueIds :
          /\ streams[q].pc = "none"
          /\ \A p \in QueueIds : streams[p].pc = "none" => q <= p
          /\ connections' = [connections EXCEPT ![user_id] = Append(@, q)]
          /\ keys' = keys \cup {user_id}
          /\ streams' = [streams EXCEPT ![q] =
                            [pc |-> "welcome", user_id |-> user_id]]
    /\ ret' = Return("connect", TRUE, "", 0, FALSE)
    /\ UNCHANGED <<queues, order_vars>>

\* A notification whose status event is sent first.
status_first == <<"order_status_updated", "sms_received">>

\* _notify_frontend: the event types of its two sends, in their order.
frontend_events == <<"sms_received", "order_status_updated">>

\* _notify_frontend for the owner of the order: two send_to_user calls, one
\* after the other, and nothing of them suspends.
NotifyFrontend(user_id) ==
    /\ \A q \in queues_of(user_id) : Len(queues[q]) + 2 <= MaxQueued
    /\ user_id \in keys
    /\ queues' = sent(sent(queues, user_id, frontend_events[1]),
                      user_id, frontend_events[2])
    /\ ret' = Return("send_to_user", TRUE, "", 0, FALSE)
    /\ UNCHANGED <<connections, keys, streams, order_vars>>

\* The response asks event_stream for the record after the welcome message:
\* the keep-alive task is made and the loop entered.
WelcomeTaken(q) ==
    /\ streams[q].pc = "welcome"
    /\ streams' = [streams EXCEPT ![q].pc = "open"]
    /\ ret' = Return("event_stream", TRUE, "", 0, FALSE)
    /\ UNCHANGED <<connections, keys, queues, order_vars>>

\* finally: "keep_alive_task.cancel()" comes before the disconnect, and the
\* name is bound after the welcome message was yielded; before that the
\* statement raises UnboundLocalError and the disconnect is not reached.
finally_reaches_disconnect(pc) == pc # "welcome"

\* event_stream is closed where it is suspended or waiting, by the response
\* that is dropped or cancelled: GeneratorExit at a yield or CancelledError
\* at wait_for pass the "except Exception" clauses and the finally runs.
StreamAbandon(q) ==
    /\ streams[q].pc \in {"welcome", "open"}
    /\ streams' = [streams EXCEPT ![q].pc = "closed"]
    /\ IF finally_reaches_disconnect(streams[q].pc)
       THEN /\ connections' = disconnect(streams[q].user_id, q)
            /\ keys' = disconnect_keys(streams[q].user_id, q)
            /\ queues' = [queues EXCEPT ![q] = <<>>]
       ELSE UNCHANGED <<connections, keys, queues>>
    /\ ret' = Return("event_stream", FALSE, "", 0, FALSE)
    /\ UNCHANGED order_vars

\* event_stream: a message is taken from the queue and yielded.
StreamGet(q) ==
    /\ streams[q].pc \in {"open", "gone"}
    /\ queues[q] # <<>>
    /\ queues' = [queues EXCEPT ![q] = Tail(@)]
    /\ ret' = Return("event_stream", TRUE, "", 0, FALSE)
    /\ UNCHANGED <<connections, keys, streams, order_vars>>

\* send_keep_alive puts its message in the queue of the stream.
KeepAlive(q) ==
    /\ streams[q].pc \in {"open", "gone"}
    /\ Len(queues[q]) < MaxQueued
    /\ queues' = [queues EXCEPT
                     ![q] = Append(@, format_sse_message("keep_alive"))]
    /\ ret' = Return("send_keep_alive", TRUE, "", 0, FALSE)
    /\ UNCHANGED <<connections, keys, streams, order_vars>>

\* The client of a stream goes away; the stream has not seen it yet.
ClientGone(q) ==
    /\ streams[q].pc = "open"
    /\ streams' = [streams EXCEPT ![q].pc = "gone"]
    /\ ret' = NoReturn
    /\ UNCHANGED <<connections, keys, queues, order_vars>>

\* event_stream sees that the client is gone and leaves its loop: the
\* finally cancels the keep-alive task and disconnects the queue.
StreamClose(q) ==
    /\ streams[q].pc = "gone"
    /\ streams' = [streams EXCEPT ![q].pc = "closed"]
    /\ connections' = disconnect(streams[q].user_id, q)
    /\ keys' = disconnect_keys(streams[q].user_id, q)
    /\ queues' = [queues EXCEPT ![q] = <<>>]
    /\ ret' = Return("event_stream", FALSE, "", 0, FALSE)
    /\ UNCHANGED order_vars

HubNext ==
    \/ \E u \in Users : Connect(u)
    \/ \E u \in Users, e \in EventTypes : SendToUser(u, e)
    \/ \E u \in Users : NotifyFrontend(u)
    \/ \E q \in QueueIds : StreamGet(q)
    \/ \E q \in QueueIds : KeepAlive(q)
    \/ \E q \in QueueIds : ClientGone(q)
    \/ \E q \in QueueIds : StreamClose(q)

HubSpec == Init /\ [][HubNext]_vars

\* The streams from their first record to their end, with the sends that
\* reach them.
StreamNext ==
    \/ \E u \in Users : StreamStart(u)
    \/ \E q \in QueueIds : WelcomeTaken(q)
    \/ \E q \in QueueIds : StreamAbandon(q)
    \/ \E q \in QueueIds : ClientGone(q)
    \/ \E q \in QueueIds : StreamClose(q)
    \/ \E u \in Users, e \in EventTypes : SendToUser(u, e)

StreamSpec == Init /\ [][StreamNext]_vars

\* A put that waits, as the put of a queue that is full does.
put_waits == TRUE

\* "await queue.put(message)": asyncio.Queue() has no maxsize, the queue is
\* never full and put returns without giving the event loop to another task.
put_suspends == FALSE

\* send_to_user up to its loop over the list of the user.
FanoutStart(user_id, event_type) ==
    /\ fanout.pc = "idle"
    /\ \A q \in queues_of(user_id) : Len(queues[q]) < MaxQueued
    /\ IF user_id \notin keys
       THEN /\ ret' = Return("send_to_user", TRUE, "", 0, FALSE)
            /\ UNCHANGED fanout
       ELSE /\ fanout' = [pc |-> "put", user_id |-> user_id,
                          event_type |-> event_type, i |-> 1,
                          start |-> queues_of(user_id), got |-> {}]
            /\ ret' = ret
    /\ UNCHANGED <<data, connections, keys, queues, streams, dummy,
                   send_raises, now, balance, orders, messages, provider,
                   released, events, creq, xreq, timer, sweep, refunds,
                   expiries, applied, timers>>

\* One pass of "for queue in self.connections[user_id]": the message is put
\* in the queue at the position of the loop.
FanoutPut ==
    /\ fanout.pc = "put"
    /\ fanout.i <= Len(connections[fanout.user_id])
    /\ LET q == connections[fanout.user_id][fanout.i]
       IN  /\ Len(queues[q]) < MaxQueued
           /\ queues' = [queues EXCEPT
                            ![q] = Append(@, format_sse_message(
                                                fanout.event_type))]
           /\ fanout' = [fanout EXCEPT !.i = @ + 1, !.got = @ \cup {q}]
    /\ ret' = ret
    /\ UNCHANGED <<data, connections, keys, streams, dummy, send_raises, now,
                   balance, orders, messages, provider, released, events,
                   creq, xreq, timer, sweep, refunds, expiries, applied,
                   timers>>

\* The loop is past the end of the list: no put raised, nothing is
\* disconnected, send_to_user returns.
FanoutEnd ==
    /\ fanout.pc = "put"
    /\ fanout.i > Len(connections[fanout.user_id])
    /\ fanout' = NoFanout
    /\ ret' = Return("send_to_user", TRUE, "", 0, FALSE)
    /\ UNCHANGED <<data, connections, keys, queues, streams, dummy,
                   send_raises, now, balance, orders, messages, provider,
                   released, events, creq, xreq, timer, sweep, refunds,
                   expiries, applied, timers>>

\* A stream starts when the event loop can run it: no send is at its loop,
\* or the send is suspended in a put.
FanoutConnect(user_id) ==
    /\ fanout.pc = "idle" \/ put_suspends
    /\ Connect(user_id)

\* A stream whose client is gone ends when the event loop can run it.
FanoutClose(q) ==
    /\ fanout.pc = "idle" \/ put_suspends
    /\ StreamClose(q)

\* send_to_user pass by pass, with the streams that start and end around
\* it; a client goes away at any time.
FanoutNext ==
    \/ \E u \in Users : FanoutConnect(u)
    \/ \E q \in QueueIds : ClientGone(q)
    \/ \E q \in QueueIds : FanoutClose(q)
    \/ \E u \in Users, e \in EventTypes : FanoutStart(u, e)
    \/ FanoutPut
    \/ FanoutEnd

FanoutSpec == Init /\ [][FanoutNext]_vars

\* sse_manager.disconnect called with any user id and any queue that a
\* connect has made.
Disconnect(user_id, queue) ==
    /\ streams[queue].pc # "none"
    /\ connections' = disconnect(user_id, queue)
    /\ keys' = disconnect_keys(user_id, queue)
    /\ ret' = Return("disconnect", TRUE, "", 0, FALSE)
    /\ UNCHANGED <<queues, streams, order_vars>>

\* The manager under any sequence of its calls.
RegistryNext ==
    \/ \E u \in Users : Connect(u)
    \/ \E u \in Users, q \in QueueIds : Disconnect(u, q)
    \/ \E u \in Users, e \in EventTypes : SendToUser(u, e)

RegistrySpec == Init /\ [][RegistryNext]_vars

\* ----------------------------------------------------------- DummyProvider

\* Time passes for the reservations of the provider.
DummyTick ==
    /\ \E id \in DummyIds : dummy[id].status # "none" /\ dummy[id].age < 2
    /\ dummy' = [id \in DummyIds |->
                    IF dummy[id].status # "none" /\ dummy[id].age < 2
                    THEN [dummy[id] EXCEPT !.age = @ + 1]
                    ELSE dummy[id]]
    /\ ret' = NoReturn
    /\ UNCHANGED <<data, connections, keys, fanout, queues, streams, send_raises, now, balance, orders,
                   messages, provider, released, events, creq, xreq, timer,
                   sweep, refunds, expiries, applied, timers>>

\* DummyProvider.order_number: no number for "us", else a reservation that
\* waits under a new external id.  The balance of the provider, which moves
\* by random amounts, is left out.
DummyOrderNumber(country_code) ==
    /\ IF country_code = "us"
       THEN /\ ret' = Return("order_number", FALSE, "", 0, FALSE)
            /\ UNCHANGED dummy
       ELSE \E id \in DummyIds :
               /\ dummy[id].status = "none"
               /\ \A h \in DummyIds : dummy[h].status = "none" => id <= h
               /\ dummy' = [dummy EXCEPT
                               ![id] = [status |-> "waiting", age |-> 0]]
               /\ ret' = Return("order_number", TRUE, "", 0, FALSE)
    /\ UNCHANGED <<data, connections, keys, fanout, queues, streams, send_raises, now, balance, orders,
                   messages, provider, released, events, creq, xreq, timer,
                   sweep, refunds, expiries, applied, timers>>

\* DummyProvider.get_sms: a reservation that waits and is older than the
\* random delay receives its message; one older than fifteen minutes is
\* expired whatever its status was.
DummyGetSms(external_order_id) ==
    /\ LET order == dummy[external_order_id]
       IN  IF order.status = "none"
           THEN /\ ret' = Return("get_sms", FALSE, "not_found", 0, FALSE)
                /\ UNCHANGED dummy
           ELSE \/ /\ order.status = "waiting"
                   /\ order.age >= 1
                   /\ dummy' = [dummy EXCEPT
                                   ![external_order_id].status = "received"]
                   /\ ret' = Return("get_sms", TRUE, "received", 0, FALSE)
                \/ /\ order.age = 2
                   /\ dummy' = [dummy EXCEPT
                                   ![external_order_id].status = "expired"]
                   /\ ret' = Return("get_sms", TRUE, "expired", 0, FALSE)
                \/ /\ order.age < 2
                   /\ ret' = Return("get_sms", TRUE, order.status, 0, FALSE)
                   /\ UNCHANGED dummy
    /\ UNCHANGED <<data, connections, keys, fanout, queues, streams, send_raises, now, balance, orders,
                   messages, provider, released, events, creq, xreq, timer,
                   sweep, refunds, expiries, applied, timers>>

\* DummyProvider.cancel_order: True when the reservation waits, and it is
\* cancelled; False for every other reservation and for an id that is not
\* known.
DummyCancelOrder(external_order_id) ==
    /\ IF dummy[external_order_id].status = "waiting"
       THEN /\ dummy' = [dummy EXCEPT
                            ![external_order_id].status = "cancelled"]
            /\ ret' = Return("cancel_order", TRUE, "", 0, TRUE)
       ELSE /\ ret' = Return("cancel_order", FALSE, "", 0, FALSE)
            /\ UNCHANGED dummy
    /\ UNCHANGED <<data, connections, keys, fanout, queues, streams, send_raises, now, balance, orders,
                   messages, provider, released, events, creq, xreq, timer,
                   sweep, refunds, expiries, applied, timers>>

DummyNext ==
    \/ DummyTick
    \/ \E c \in {"ru", "us"} : DummyOrderNumber(c)
    \/ \E id \in DummyIds : DummyGetSms(id)
    \/ \E id \in DummyIds : DummyCancelOrder(id)

DummySpec == Init /\ [][DummyNext]_vars

\* ------------------------------------------------- refunds of two orders

\* A user who had the price of two orders has created both, one after the
\* other: both are pending, both monitors sleep, the balance is spent.
RaceOrder(o) ==
    [status |-> "pending", user |-> "u1", price |-> order_price("ru", "tg"),
     phone |-> "p1", ext |-> -o, expires_at |-> OrderTimeout]

RaceInit ==
    /\ data = NoData
    /\ connections = [u \in Users |-> <<>>]
    /\ keys = {}
    /\ fanout = NoFanout
    /\ queues = [q \in QueueIds |-> <<>>]
    /\ streams = [q \in QueueIds |-> NoStream]
    /\ dummy = [id \in DummyIds |-> NoReservation]
    /\ send_raises = FALSE
    /\ now = 0
    /\ balance = [u \in Users |-> 0]
    /\ orders = [o \in OrderIds |-> RaceOrder(o)]
    /\ messages = [o \in OrderIds |-> <<>>]
    /\ provider = TRUE
    /\ released = {}
    /\ events = {}
    /\ creq = [c \in Creators |-> IdleCreate]
    /\ xreq = [x \in Cancellers |-> IdleCancel]
    /\ timer = [o \in OrderIds |->
                   [NoTimer EXCEPT !.pc = "sleep", !.wake = OrderTimeout]]
    /\ sweep = IdleSweep
    /\ ret = Return("create_order", TRUE, "", MaxOrders, TRUE)
    /\ refunds = [o \in OrderIds |-> 0]
    /\ expiries = [o \in OrderIds |-> 0]
    /\ applied = [o \in OrderIds |-> 0]
    /\ timers = [o \in OrderIds |-> 1]

\* The monitors and cancel_order run on the two orders; at most MaxInFlight
\* of them hold loaded rows at a time.
RaceWake(o) == InFlight < MaxInFlight /\ monitor_wakes(o)
RaceCancel(x, oid, u) ==
    InFlight < MaxInFlight /\ cancel_order_starts(x, oid, u)

RaceNext ==
    \/ Tick
    \/ \E o \in OrderIds : RaceWake(o)
    \/ \E o \in OrderIds : TimerUserRead(o)
    \/ \E o \in OrderIds : TimerRelease(o)
    \/ \E o \in OrderIds : TimerCommit(o)
    \/ \E x \in Cancellers, oid \in OrderIds, u \in Users :
          RaceCancel(x, oid, u)
    \/ \E x \in Cancellers : CancelRelease(x)
    \/ \E x \in Cancellers : CancelUserRead(x)
    \/ \E x \in Cancellers : CancelCommit(x)

RaceSpec == RaceInit /\ [][RaceNext]_vars

\* ------------------------------------------------- messages of one order

\* Orders are created and webhooks are posted for the first of them, with
\* every text of SmsTexts.
SmsNext ==
    \/ \E c \in Creators, q \in Requests : CreateStart(c, q[1], q[2], q[3])
    \/ \E c \in Creators : CreateReserve(c)
    \/ \E c \in Creators : CreateCommit(c)
    \/ \E d \in SmsData : ReceiveWebhook(d)

SmsSpec == Init /\ [][SmsNext]_vars

\* ------------------------------------------------------ extraction alone

\* The message texts extract_verification_code is applied to.
MessageTexts == TextsOf(MaxTextTokens)

\* SMSWebhookData: the payload with the extracted code, <<>> for None.
SMSWebhookData(d, code) ==
    [order_id |-> d.order_id, phone_number |-> d.phone_number,
     message_text |-> d.message_text, code |-> code]

CodeInit ==
    /\ data \in {Payload(Field("value", 1),
                          Field("value", <<"+", "7", "7", "7", "7", "7", "7",
                                           "7", "7", "7", "7", "7">>),
                          Field("value", s)) : s \in MessageTexts}
    /\ connections = [u \in Users |-> <<>>]
    /\ keys = {}
    /\ fanout = NoFanout
    /\ queues = [q \in QueueIds |-> <<>>]
    /\ streams = [q \in QueueIds |-> NoStream]
    /\ dummy = [id \in DummyIds |-> NoReservation]
    /\ send_raises = FALSE
    /\ now = 0
    /\ balance = [u \in Users |-> start_balance(u)]
    /\ orders = [o \in OrderIds |-> NoOrder]
    /\ messages = [o \in OrderIds |-> <<>>]
    /\ provider = TRUE
    /\ released = {}
    /\ events = {}
    /\ creq = [c \in Creators |-> IdleCreate]
    /\ xreq = [x \in Cancellers |-> IdleCancel]
    /\ timer = [o \in OrderIds |-> NoTimer]
    /\ sweep = IdleSweep
    /\ ret = NoReturn
    /\ refunds = [o \in OrderIds |-> 0]
    /\ expiries = [o \in OrderIds |-> 0]
    /\ applied = [o \in OrderIds |-> 0]
    /\ timers = [o \in OrderIds |-> 0]

\* extract_verification_code is applied to the text of the payload, as
\* validate_webhook_data applies it (lines 91-101).
ExtractCode ==
    /\ LET code == extract_verification_code(data.message_text.value)
       IN  /\ data' = SMSWebhookData(data, code)
           /\ ret' = Return("extract_verification_code", code # <<>>, "", 0,
                            FALSE)
    /\ UNCHANGED <<connections, keys, fanout, queues, streams, dummy, send_raises, now, balance, orders, messages, provider, released, events,
                   creq, xreq, timer, sweep, refunds, expiries, applied,
                   timers>>

CodeNext == ExtractCode

CodeSpec == CodeInit /\ [][CodeNext]_vars

\* ------------------------------------------------ restarts and scheduling

\* The process stops and starts again.  The rows of the database stay; the
\* handlers in flight are lost with their uncommitted sessions, and so are
\* the monitor tasks, which live only in the event loop.  lifespan creates
\* the tables, loads the initial data and builds the SMS adapter: it starts
\* no task.  Restarts that find no monitor task alive are left out.
Restart ==
    /\ \E o \in OrderIds :
         timer[o].pc \in {"sleep", "user", "release", "commit"}
    /\ creq' = [c \in Creators |-> IdleCreate]
    /\ xreq' = [x \in Cancellers |-> IdleCancel]
    /\ timer' = [o \in OrderIds |-> NoTimer]
    /\ sweep' = IdleSweep
    /\ ret' = NoReturn
    /\ UNCHANGED <<data, connections, keys, fanout, queues, streams, dummy, send_raises>>
    /\ UNCHANGED <<now, balance, orders, messages, provider, released, events,
                   refunds, expiries, applied, timers>>

\* Whether the program schedules start_cleanup_task: no call of it exists.
cleanup_task_started == FALSE

\* The monitor of order o was created and a restart lost it.
timer_lost(o) == timers[o] >= 1 /\ timer[o].pc = "none"

\* The specification with restarts and the scheduling of the event loop,
\* over the behaviours with at most MaxLiveOrders order rows.
MaxLiveOrders == 1

LiveNext ==
    \/ Tick
    \/ \E c \in Creators, q \in Requests : CreateStart(c, q[1], q[2], q[3])
    \/ \E c \in Creators : CreateReserve(c)
    \/ \E c \in Creators :
          /\ CreateCommit(c)
          /\ Cardinality({o \in OrderIds : orders'[o].status # "absent"})
                <= MaxLiveOrders
    \/ \E x \in Cancellers, oid \in OrderIds, u \in Users :
          CancelStart(x, oid, u)
    \/ \E x \in Cancellers : CancelRelease(x)
    \/ \E x \in Cancellers : CancelUserRead(x)
    \/ \E x \in Cancellers : CancelCommit(x)
    \/ \E o \in OrderIds : TimerWake(o)
    \/ \E o \in OrderIds : TimerUserRead(o)
    \/ \E o \in OrderIds : TimerRelease(o)
    \/ \E o \in OrderIds : TimerCommit(o)
    \/ SweepSelect
    \/ SweepUserRead
    \/ SweepRelease
    \/ SweepCommit
    \/ \E d \in WebhookData : ReceiveWebhook(d)
    \/ Restart

\* Time passes.  A handler that was started runs on to its return, and so
\* does a monitor task that asyncio.create_task has scheduled: the event loop
\* resumes every task whose await has completed.  A cleanup cycle that was
\* started runs on as well, but cycles are started only by
\* start_cleanup_task.  Requests, webhooks and restarts need not happen.
Fairness ==
    /\ WF_vars(Tick)
    /\ \A c \in Creators :
         WF_vars(CreateReserve(c)) /\ WF_vars(CreateCommit(c))
    /\ \A x \in Cancellers :
         /\ WF_vars(CancelRelease(x))
         /\ WF_vars(CancelUserRead(x))
         /\ WF_vars(CancelCommit(x))
    /\ \A o \in OrderIds :
         /\ SF_vars(TimerWake(o))
         /\ WF_vars(TimerUserRead(o))
         /\ WF_vars(TimerRelease(o))
         /\ WF_vars(TimerCommit(o))
    /\ WF_vars(SweepUserRead)
    /\ WF_vars(SweepRelease)
    /\ WF_vars(SweepCommit)
    /\ \A started \in {cleanup_task_started} \ {FALSE} :
         WF_vars(SweepSelect)

LiveSpec == Init /\ [][LiveNext]_vars /\ Fairness

\* ------------------------------------------------------------------ claims

\* The prices of a set of order rows, summed.
RECURSIVE SumPrices(_)
SumPrices(S) ==
    IF S = {} THEN 0
    ELSE LET o == CHOOSE x \in S : TRUE
         IN  orders[o].price + SumPrices(S \ {o})

\* C1: escrow conservation.  An order that ends cancelled or expired has its
\* price credited exactly once: when the only order ever created has ended
\* cancelled or expired and no handler is in flight, its owner's balance is
\* the balance the owner started with.
C1_EscrowReversedOnce ==
    \A o \in Rows :
        (/\ Rows = {o}
         /\ InFlight = 0
         /\ orders[o].status \in {"cancelled", "expired"})
        => balance[orders[o].user] = start_balance(orders[o].user)

\* C2: capture conservation.  An order to which a message was applied is
\* never refunded: no order has both a committed "received" and a committed
\* credit.
C2_NoRefundAfterCapture ==
    \A o \in OrderIds : applied[o] = 0 \/ refunds[o] = 0

\* C3: a status is written at most once.  No step changes the status of an
\* order that is received, expired or cancelled.
C3_StatusWrittenOnce ==
    [][\A o \in OrderIds :
          orders[o].status \in {"received", "expired", "cancelled"}
          => orders'[o].status = orders[o].status]_vars

\* C4: expiration is race-safe.  Of the timer and the sweep, only one commits
\* the expiry (and its refund) of an order.
C4_ExpiredOnce ==
    \A o \in OrderIds : expiries[o] <= 1

\* C5: webhook idempotence.  However often a payload is delivered, an order
\* has at most one stored message and at most one committed pending ->
\* received transition, and as many of one as of the other.
C5_WebhookAppliedOnce ==
    \A o \in OrderIds :
        /\ applied[o] <= 1
        /\ Len(messages[o]) = applied[o]

\* C5 happens: the payload is delivered again to an order that has stored it
\* and is received, and the handler has returned.
C5_Redelivered ==
    /\ ret.op = "process_webhook"
    /\ ret.why = "transition"
    /\ ret.order \in OrderIds
    /\ orders[ret.order].status = "received"
    /\ \E t \in Texts : \E m \in DOMAIN messages[ret.order] :
           messages[ret.order][m].text = t

\* C6: the message application returns true exactly when it stored the
\* message and made the transition: in every step in which process_webhook
\* returns, it returns true iff the step stored a message.
C6_TrueIffApplied ==
    [][ret'.op = "process_webhook"
       => (ret'.ok <=> messages' # messages)]_vars

\* C7: the balance check and the debit of create_order are atomic.  While no
\* create_order call is in flight and nothing was refunded, every user's
\* balance is the starting balance less the prices of the user's orders.
C7_NoDebitLost ==
    (/\ \A c \in Creators : creq[c].pc = "idle"
     /\ \A o \in OrderIds : refunds[o] = 0)
    => \A u \in Users :
          balance[u] = start_balance(u)
                       - SumPrices({o \in Rows : orders[o].user = u})

\* C8: create_order fails closed.  A step in which create_order returns a
\* failure leaves the balances, the order rows and the timers as they were.
C8_FailsClosed ==
    [][(ret'.op = "create_order" /\ ~ret'.ok)
       => UNCHANGED <<balance, orders, timer>>]_vars

\* C9: a successful create_order debits the owner by exactly the price,
\* inserts exactly one row, pending, expiring one timeout from now, and
\* schedules exactly one expiration task for it.
C9_CreatedAsSpecified ==
    [][(ret'.op = "create_order" /\ ret'.ok)
       => LET o == ret'.order
              u == orders'[o].user
          IN  /\ orders[o].status = "absent"
              /\ \A p \in OrderIds \ {o} : orders'[p] = orders[p]
              /\ orders'[o].status = "pending"
              /\ orders'[o].expires_at = now + OrderTimeout
              /\ balance'[u] = balance[u] - orders'[o].price
              /\ timers'[o] = 1
              /\ timer'[o].pc = "sleep"]_vars

\* C10: cancel_order for an order that does not exist, has another owner or
\* is not pending returns False and changes no order, balance, provider
\* reservation, message or published event (and holds no call open).
C10_RefusedCancelChangesNothing ==
    [][\A x \in Cancellers, oid \in OrderIds, u \in Users :
          (/\ CancelStart(x, oid, u)
           /\ \/ orders[oid].status = "absent"
              \/ orders[oid].user # u
              \/ orders[oid].status # "pending")
          => /\ ret'.op = "cancel_order"
             /\ ~ret'.ok
             /\ UNCHANGED <<orders, balance, released, events, messages,
                            xreq>>]_vars

\* C10 happens: cancel_order has returned from its select for the only
\* order there is, which is received.
C10_RefusedForStatus ==
    /\ ret.op = "cancel_order"
    /\ ret.why = "status"
    /\ ~ret.ok
    /\ \E o \in Rows : Rows = {o} /\ orders[o].status = "received"

\* C11: a provider call that raises during cancel_order or _expire_order is
\* swallowed.  No handler returns because of it: the handler goes on to its
\* next step, and unless its own commit raises it commits the order as
\* cancelled (cancel_order) or expired (_expire_order), credits the owner
\* with the price and, for cancel_order, returns True.
C11_ReleaseFailureSwallowed ==
    [][/\ ret'.why # "release"
       /\ \A x \in Cancellers :
            /\ (xreq[x].pc = "release" /\ xreq'[x] # xreq[x])
                  => xreq'[x].pc = "user"
            /\ (xreq[x].pc = "commit" /\ xreq[x].rel = "raised"
                   /\ xreq'[x] # xreq[x] /\ ret'.why # "db")
                  => LET o == xreq[x].order
                     IN  /\ orders'[o].status = "cancelled"
                         /\ balance'[orders[o].user]
                               = xreq[x].snap + orders[o].price
                         /\ refunds'[o] = refunds[o] + 1
                         /\ ret'.op = "cancel_order" /\ ret'.ok
       /\ \A o \in OrderIds :
            /\ (timer[o].pc = "release" /\ timer'[o] # timer[o])
                  => timer'[o].pc = "commit"
            /\ (timer[o].pc = "commit" /\ timer[o].rel = "raised"
                   /\ timer'[o] # timer[o] /\ ret'.why # "db")
                  => /\ orders'[o].status = "expired"
                     /\ balance'[orders[o].user]
                           = timer[o].snap + orders[o].price
                     /\ refunds'[o] = refunds[o] + 1
       /\ (sweep.pc = "release" /\ sweep' # sweep) => sweep'.pc = "commit"
       /\ (sweep.pc = "commit" /\ sweep.rel = "raised" /\ sweep' # sweep
              /\ ret'.why # "db")
             => LET o == Head(sweep.todo)
                IN  /\ orders'[o].status = "expired"
                    /\ balance'[orders[o].user]
                          = sweep.cache[orders[o].user] + orders[o].price
                    /\ refunds'[o] = refunds[o] + 1]_vars

\* A cancel_order whose provider call raised has returned True with the
\* order cancelled.
C11_CancelledAfterFailedRelease ==
    /\ ret.op = "cancel_order"
    /\ ret.ok
    /\ ret.why = "warned"
    /\ orders[ret.order].status = "cancelled"

\* C12: an event is published only by the step that commits the status it
\* announces: in the step that adds an event the order is committed with the
\* event's status and the handler's commit succeeded, so a handler that
\* rolled back has published nothing.
C12_PublishedAfterCommit ==
    [][\A e \in events' \ events :
          /\ orders'[e.order].status = e.status
          /\ ret'.wrote
          /\ ret'.order = e.order
          /\ e.status = "received"
                => applied'[e.order] = applied[e.order] + 1
          /\ e.status = "expired"
                => expiries'[e.order] = expiries[e.order] + 1
          /\ e.status = "cancelled"
                => /\ refunds'[e.order] = refunds[e.order] + 1
                   /\ expiries'[e.order] = expiries[e.order]]_vars

\* A cancellation and a message were each published by their committing
\* handler, the last of which has just returned.
C12_PublishedCommitted ==
    /\ ret.wrote
    /\ ret.ok
    /\ \E e \in events : e.order = ret.order /\ e.status = "cancelled"
    /\ \E e \in events : e.type = "sms_received"

\* C13: after a restart has lost the monitor of a pending order whose
\* expires_at is in the past, the order does not stay pending: the cleanup
\* cycle of the restarted process expires it.
C13_SweptAfterRestart ==
    \A o \in OrderIds :
       (timer_lost(o) /\ o \in expired_orders)
          ~> (orders[o].status # "pending")

\* C14: every order that was created reaches a terminal status, unless a
\* restart has lost its monitor.
C14_EveryOrderEnds ==
    \A o \in OrderIds :
       (orders[o].status = "pending")
          ~> (orders[o].status # "pending" \/ timer_lost(o))

\* C15: a step that applies a message to a pending order stores exactly one
\* message for it, sets its status to received, leaves every balance as it
\* was and publishes sms_received and order_status_updated (received) to the
\* owner of the order and to nobody else.
C15_AppliedAndPublished ==
    [][\A o \in OrderIds :
          applied'[o] # applied[o]
             => /\ orders[o].status = "pending"
                /\ Len(messages'[o]) = Len(messages[o]) + 1
                /\ \A p \in OrderIds \ {o} : messages'[p] = messages[p]
                /\ orders'[o].status = "received"
                /\ balance' = balance
                /\ sms_events(o) \subseteq events'
                /\ \A e \in events' \ events :
                      e.user = orders[o].user /\ e.order = o]_vars

\* C17: _find_order returns the row whose id is the reference when there is
\* one; otherwise a row whose external id is the reference when there is
\* one; otherwise a pending row with the phone number, or nothing.  A row
\* found by its phone number is pending, and no row is returned by a lower
\* rule while a higher rule has a match.
C17_LookupPriority ==
    [][\A ref \in Refs, ph \in Phones :
          Lookup(ref, ph)
             => LET o == ret'.order
                    id_match == ref \in Rows
                    ext_match == \E r \in Rows : orders[r].ext = ref
                    phone_match ==
                        \E r \in Rows : /\ orders[r].phone = ph
                                         /\ orders[r].status = "pending"
                IN  /\ id_match => o = ref
                    /\ (~id_match /\ ext_match)
                          => (o \in Rows /\ orders[o].ext = ref)
                    /\ (~id_match /\ ~ext_match /\ phone_match)
                          => /\ o \in Rows
                             /\ orders[o].phone = ph
                             /\ orders[o].status = "pending"
                    /\ (~id_match /\ ~ext_match /\ ~phone_match)
                          => o = 0]_vars

\* A lookup has returned a received order by its id while another row holds
\* that id as its external id and is pending with a phone number.
C17_IdWonOverOthers ==
    /\ ret.op = "_find_order"
    /\ ret.order \in Rows
    /\ orders[ret.order].status = "received"
    /\ \E r \in Rows \ {ret.order} :
         /\ orders[ret.order].ext = r
         /\ orders[r].ext = ret.order
         /\ orders[r].status = "pending"

\* C16: a webhook whose reference resolves only to orders in a terminal
\* status is a no-op: no message is stored, no status and no balance
\* changes, nothing is published, and process_webhook returns a result.
C16_TerminalOrderUntouched ==
    [][ret'.op = "process_webhook"
         => \A ref \in Refs, ph \in Phones, t \in Texts :
               LET found == find_order(ref, ph)
               IN  (/\ found # {}
                    /\ \A o \in found :
                          orders[o].status
                             \in {"received", "cancelled", "expired"}
                    /\ ProcessWebhook(ref, ph, t,
                                      extract_verification_code(t)))
                      => /\ messages' = messages
                         /\ orders' = orders
                         /\ balance' = balance
                         /\ events' = events
                         /\ ret'.ok \in BOOLEAN
                         /\ ~ret'.wrote]_vars

\* A webhook for an expired order has returned and the order holds no
\* message.
C16_RefusedForExpired ==
    /\ ret.op = "process_webhook"
    /\ ret.order \in Rows
    /\ orders[ret.order].status = "expired"
    /\ messages[ret.order] = <<>>

\* The form the accepted numbers have: "+" followed by MinDigits to
\* MaxDigits digits and nothing else.
plus_and_digits(s) ==
    /\ Len(s) \in (1 + MinDigits)..(1 + MaxDigits)
    /\ s[1] = "+"
    /\ \A i \in 2..Len(s) : s[i] \in Digits

\* A payload that lacks a required field, holds one empty, or holds a phone
\* number that is not of the accepted form.
defective(d) ==
    \/ \E f \in required_fields : d[f].state # "value"
    \/ ~plus_and_digits(clean_number(d.phone_number.value))

\* C18: a payload with a missing or empty order_id, phone_number or
\* message_text, or with an invalid phone number, is rejected by the
\* validation, before any order is looked up: process_webhook returns False
\* and no order, message or balance changes and nothing is published.
C18_InvalidPayloadRejected ==
    [][\A d \in WebhookData :
          (/\ ret'.op = "process_webhook"
           /\ defective(d)
           /\ ReceiveWebhook(d))
             => /\ ~ret'.ok
                /\ ret'.why = "validation"
                /\ UNCHANGED <<orders, messages, balance, events,
                               applied>>]_vars

\* The payloads that are not defective.
SoundData == {d \in WebhookData : ~defective(d)}

\* No order has the reference of payload d as its id or as its external id,
\* and no pending order has its phone number.
matches_no_order(d) ==
    \A o \in Rows :
       /\ o # d.order_id.value
       /\ orders[o].ext # d.order_id.value
       /\ ~(orders[o].status = "pending" /\ orders[o].phone = tokens[d])

C20_PhoneAccepted ==
    ret.op = "validate_phone_number"
       => (ret.ok <=> plus_and_digits(clean_number(data.phone_number.value)))

\* The codes of text s that follow a label.
labelled_codes(s) ==
    {SubSeq(s, i, i + RunLen(s, i) - 1) :
        i \in label_matches(s, "K") \cup label_matches(s, "C")}

\* C21: when a text holds a code after a label and, before it, a different
\* bare run of four to six digits, the extracted code is the one after the
\* label.
C21_LabelledCodeWins ==
    ret.op = "extract_verification_code"
       => LET s == data.message_text.value
              labelled == label_matches(s, "K") \cup label_matches(s, "C")
          IN  (/\ labelled # {}
               /\ \E j \in bare_matches(s) :
                     /\ \A i \in labelled : j < i
                     /\ SubSeq(s, j, j + RunLen(s, j) - 1)
                           \notin labelled_codes(s))
                 => data.code \in labelled_codes(s)

\* The payloads whose text yields no code.
NoCodeData == {d \in SmsData : codes[d] = <<>>}

\* C22: a failed code extraction is not fatal.  When a valid payload whose
\* text yields no code is processed for an order that is pending, and the
\* database does not fail, the message is stored with the sanitized text and
\* without a code, and the order becomes received.
C22_StoredWithoutCode ==
    [][(ret'.op = "process_webhook" /\ ret'.why # "db")
          => \A o \in OrderIds :
                orders[o].status = "pending"
                   => \A d \in NoCodeData :
                         (/\ find_order(d.order_id.value, tokens[d]) = {o}
                          /\ ReceiveWebhook(d))
                            => /\ messages'[o] =
                                     Append(messages[o],
                                            Message(texts[d], <<>>))
                               /\ orders'[o].status = "received"]_vars

\* C22 happens: an order is received and its stored message has a text
\* without a digit and no code.
C22_ReceivedWithoutCode ==
    \E o \in Rows :
        /\ orders[o].status = "received"
        /\ Len(messages[o]) = 1
        /\ messages[o][1].code = <<>>
        /\ messages[o][1].text # <<>>
        /\ \A i \in DOMAIN messages[o][1].text :
              messages[o][1].text[i] \notin Digits

\* C23: a publish for a user puts the event once in the queue of every
\* subscription registered for that user and in no other queue, and a
\* publish for a user without a subscription changes nothing.
C23_DeliveredToOwnQueues ==
    [][\A u \in Users, e \in EventTypes :
          SendToUser(u, e)
             => /\ \A q \in QueueIds :
                      queues'[q] =
                         IF q \in Range(connections[u])
                         THEN Append(queues[q], format_sse_message(e))
                         ELSE queues[q]
                /\ connections[u] = <<>>
                      => UNCHANGED <<connections, queues, streams>>]_vars

\* C23 happens: one user has two subscriptions and the other has one, and
\* after a publish the two queues of the first hold the event and the queue
\* of the other holds nothing.
C23_TwoOfThreeQueues ==
    /\ ret.op = "send_to_user"
    /\ \E u \in Users, v \in Users :
          /\ u # v
          /\ Len(connections[u]) = 2
          /\ Len(connections[v]) = 1
          /\ \A q \in Range(connections[u]) :
                queues[q] = <<format_sse_message("sms_received")>>
          /\ \A q \in Range(connections[v]) : queues[q] = <<>>

\* The subscriptions of a user whose client is gone, and those whose client
\* is there.
dead_queues(u) == {q \in Range(connections[u]) : streams[q].pc = "gone"}
live_queues(u) == {q \in Range(connections[u]) : streams[q].pc = "open"}

\* C24: when a user has live subscriptions and one whose client is gone, a
\* publish takes the dead subscription out of the registry, so that the
\* connection count of the user drops by one, and puts the event in the
\* queue of every live subscription.
C24_DeadSubscriptionPruned ==
    [][\A u \in Users, e \in EventTypes :
          (/\ SendToUser(u, e)
           /\ Cardinality(dead_queues(u)) = 1
           /\ live_queues(u) # {})
             => /\ Range(connections'[u]) = live_queues(u)
                /\ Len(connections'[u]) = get_connection_count(u) - 1
                /\ \A q \in live_queues(u) :
                      queues'[q] =
                         Append(queues[q], format_sse_message(e))]_vars

\* C25: cancelling a reservation that is finished at the provider (its
\* message received, expired or cancelled) reports success.
C25_FinishedCancelSucceeds ==
    [][\A id \in DummyIds :
          (/\ DummyCancelOrder(id)
           /\ dummy[id].status \in {"received", "expired", "cancelled"})
             => ret'.ok]_vars

\* C26: once an order is stored, no step deletes it or changes a field of
\* it other than its status, and no step changes or deletes a stored
\* message: the messages of an order only grow at their end.
C26_OnlyStatusChanges ==
    [][\A o \in Rows :
          /\ orders'[o].status # "absent"
          /\ orders'[o] = [orders[o] EXCEPT !.status = orders'[o].status]
          /\ Len(messages'[o]) >= Len(messages[o])
          /\ SubSeq(messages'[o], 1, Len(messages[o])) = messages[o]]_vars

\* C26 happens: an order whose message was stored has been refunded since,
\* and it still has its message, its price and its external id.
C26_RefundedWithMessage ==
    \E o \in Rows :
        /\ orders[o].status \in {"expired", "cancelled"}
        /\ refunds[o] >= 1
        /\ Len(messages[o]) = 1
        /\ orders[o].price > 0
        /\ orders[o].ext # 0

\* C27: refunds of different orders of one user do not overwrite each
\* other.  When each of the two orders of the user has been refunded once
\* and no handler is running, the balance has grown by both prices.
C27_BothRefundsKept ==
    (/\ InFlight = 0
     /\ \A o \in OrderIds : refunds[o] = 1)
       => balance["u1"] = orders[1].price + orders[2].price

\* C28: when cancel_order and the expiration run on the same pending order,
\* one of them makes the transition and the refund and the other leaves the
\* order alone: no step refunds an order that is cancelled or expired or
\* writes its status, and cancel_order does not return True for an order
\* that the expiration has committed as expired.
C28_OneOfCancelAndExpiry ==
    [][/\ \A o \in Rows :
             orders[o].status \in {"cancelled", "expired"}
                => /\ refunds'[o] = refunds[o]
                   /\ orders'[o].status = orders[o].status
       /\ (ret'.op = "cancel_order" /\ ret'.ok)
             => orders[ret'.order].status # "expired"]_vars

\* The balances the sessions in flight hold for the owner of order o.
loaded_balances(o) ==
    {xreq[x].snap : x \in Cancellers} \cup {timer[o].snap}
       \cup {sweep.cache[orders[o].user]}

C30_LateTimerDoesNothing ==
    [][\A o \in OrderIds :
          (/\ TimerWake(o)
           /\ ~(o \in Rows /\ orders[o].status = "pending"))
             => /\ timer'[o].pc = "done"
                /\ UNCHANGED <<orders, balance, messages, released, events,
                               refunds, expiries>>]_vars

\* C30 happens: the monitor of an order that was cancelled before the
\* timeout has woken and ended, and the order was refunded once and never
\* expired.
C30_WokeAfterCancel ==
    \E o \in Rows :
        /\ timer[o].pc = "done"
        /\ now >= orders[o].expires_at
        /\ orders[o].status = "cancelled"
        /\ refunds[o] = 1
        /\ expiries[o] = 0
        /\ released = {orders[o].ext}

\* C31: one cleanup cycle expires the orders that are pending and past due
\* when it runs, and no other.  The cycle loads exactly the pending orders
\* whose expires_at is not after now, and the order a step of the cycle
\* commits as expired was pending and not yet refunded.
C31_SweepExpiresDueOrders ==
    [][/\ (sweep.pc = "idle" /\ sweep'.pc # "idle")
             => Range(sweep'.todo) =
                   {o \in Rows : /\ orders[o].status = "pending"
                                 /\ orders[o].expires_at <= now}
       /\ (sweep.pc = "commit" /\ sweep' # sweep /\ ret'.ok)
             => /\ orders[ret'.order].status = "pending"
                /\ refunds[ret'.order] = 0
                /\ orders'[ret'.order].status = "expired"]_vars

\* C32: the balance of a user is never negative, whatever the interleaving
\* of create_order, cancel_order, the expirations and the webhooks.
C32_BalanceNotNegative ==
    \A u \in Users : balance[u] >= 0

\* C32 happens: a user who has paid for an order asked for another one and
\* create_order refused it for the balance.
C32_RefusedForBalance ==
    /\ ret.op = "create_order"
    /\ ret.why = "balance"
    /\ \E o \in Rows : orders[o].user = "u1"
    /\ balance["u1"] < StartBalance

\* C33: an order that has a stored message is not pending, and the webhook
\* handler never returns from its branch for a duplicate of a stored
\* message.
C33_MessageMeansNotPending ==
    /\ \A o \in OrderIds :
          messages[o] # <<>> => orders[o].status # "pending"
    /\ ret.why # "duplicate"

\* C33 happens: the payload of a stored message is delivered again, to an
\* order that has expired since, and the handler refuses it for the status
\* of the order.
C33_RedeliveredAfterExpiry ==
    /\ ret.op = "process_webhook"
    /\ ret.why = "transition"
    /\ ret.order \in Rows
    /\ orders[ret.order].status = "expired"
    /\ Len(messages[ret.order]) = 1

\* C34: an order has at most one stored message, whatever the texts of the
\* webhooks that are delivered for it.
C34_OneMessagePerOrder ==
    \A o \in OrderIds : Len(messages[o]) <= 1

\* C34 happens: a webhook was delivered for an order that is received and
\* holds a message with a code, the handler refused it, and the order holds
\* that one message.
C34_SecondWebhookRefused ==
    /\ ret.op = "process_webhook"
    /\ ret.why = "transition"
    /\ ret.order \in Rows
    /\ orders[ret.order].status = "received"
    /\ Len(messages[ret.order]) = 1
    /\ messages[ret.order][1].code # <<>>
    /\ messages[ret.order][1].text # SmsText

\* C35: a send to the notification hub that raises changes nothing of the
\* operation that triggered it: the step that commits a cancellation or a
\* received message while the hub raises leaves the status, the balance and
\* the message as the commit wrote them, publishes nothing, and the handler
\* returns true.
C35_PublishFailureSwallowed ==
    [][(/\ send_raises
        /\ ret'.op \in {"cancel_order", "process_webhook"}
        /\ ret'.wrote /\ ret'.why # "refresh"
        /\ ret'.order \in OrderIds
        /\ (orders' # orders \/ messages' # messages))
       => /\ ret'.ok
          /\ events' = events
          /\ ret'.op = "cancel_order"
                => /\ orders'[ret'.order].status = "cancelled"
                   /\ \E x \in Cancellers :
                        /\ xreq[x].pc = "commit" /\ xreq[x].order = ret'.order
                        /\ balance'[orders[ret'.order].user]
                             = xreq[x].snap + orders[ret'.order].price
          /\ ret'.op = "process_webhook"
                => /\ orders'[ret'.order].status = "received"
                   /\ Len(messages'[ret'.order])
                        = Len(messages[ret'.order]) + 1
                   /\ balance' = balance]_vars

\* A cancellation that committed and returned true while the hub raised,
\* after a message was applied to another order: nothing was published.
C35_CancelledWithoutEvent ==
    /\ send_raises
    /\ ret.op = "cancel_order" /\ ret.ok /\ ret.wrote
    /\ ret.order \in Rows /\ orders[ret.order].status = "cancelled"
    /\ \E o \in Rows : orders[o].status = "received" /\ applied[o] = 1
    /\ events = {}

\* The sum of get_connection_count over the users.
RECURSIVE sum_of_counts(_)
sum_of_counts(us) ==
    IF us = {} THEN 0
    ELSE LET u == CHOOSE u \in us : TRUE
         IN  get_connection_count(u) + sum_of_counts(us \ {u})

\* C36: after any sequence of connect, disconnect and send_to_user the
\* registry has no key with an empty list and get_total_connections is the
\* sum of get_connection_count over the users; a connect adds one queue to
\* the list of its user and nothing else, a disconnect of a queue in the
\* list of the user removes that queue and nothing else, and a disconnect of
\* a queue that is not in the list of the user changes nothing.
C36_RegistryKept ==
    /\ [](/\ \A u \in keys : connections[u] # <<>>
          /\ get_total_connections = sum_of_counts(Users))
    /\ [][/\ \A u \in Users :
              Connect(u)
                => /\ Len(connections'[u]) = Len(connections[u]) + 1
                   /\ SubSeq(connections'[u], 1, Len(connections[u]))
                        = connections[u]
                   /\ connections'[u][Len(connections'[u])]
                        \notin UNION {Range(connections[v]) : v \in Users}
                   /\ \A v \in Users \ {u} : connections'[v] = connections[v]
          /\ \A u \in Users, q \in QueueIds :
              Disconnect(u, q)
                => IF q \in Range(connections[u])
                   THEN /\ Range(connections'[u]) = Range(connections[u]) \ {q}
                        /\ Len(connections'[u]) = Len(connections[u]) - 1
                        /\ \A v \in Users \ {u} :
                              connections'[v] = connections[v]
                   ELSE /\ connections' = connections
                        /\ keys' = keys]_vars

\* The last queue of a user was disconnected and the key of the user deleted,
\* while the other user kept two queues.
C36_LastQueueDisconnected ==
    /\ ret.op = "disconnect"
    /\ \E u \in Users :
          /\ u \notin keys
          /\ \E q \in QueueIds :
                /\ streams[q].user_id = u
                /\ q \notin UNION {Range(connections[v]) : v \in Users}
    /\ \E v \in keys : get_connection_count(v) = 2
    /\ get_total_connections = 2

\* C37: a stream that has ended, wherever it ended, has its queue out of the
\* registry.
C37_EndedStreamRemoved ==
    \A q \in QueueIds :
       streams[q].pc = "closed"
          => q \notin UNION {Range(connections[u]) : u \in Users}

\* C38: a queue hands out what was put in it in the order of the sends: a
\* send puts its event behind everything sent before it in every queue of
\* the user, _notify_frontend puts sms_received and behind it
\* order_status_updated, and event_stream takes the event at the front and
\* leaves the others in their order.
C38_ReceivedInPublishOrder ==
    [][/\ \A u \in Users, e \in EventTypes :
            SendToUser(u, e)
               => \A q \in Range(connections[u]) :
                     /\ Len(queues'[q]) = Len(queues[q]) + 1
                     /\ SubSeq(queues'[q], 1, Len(queues[q])) = queues[q]
                     /\ queues'[q][Len(queues'[q])] = format_sse_message(e)
       /\ \A u \in Users :
            NotifyFrontend(u)
               => \A q \in Range(connections[u]) :
                     queues'[q] =
                        queues[q] \o <<format_sse_message("sms_received"),
                                       format_sse_message("order_status_updated")>>
       /\ \A q \in QueueIds :
            StreamGet(q)
               => <<queues[q][1]>> \o queues'[q] = queues[q]]_vars

\* Two streams of one user were sent the two events of a received message;
\* one has taken sms_received and holds order_status_updated, the other
\* holds both in the order of the sends.
C38_SmsTakenFirst ==
    /\ ret.op = "event_stream" /\ ret.ok
    /\ \E u \in Users, p \in QueueIds, q \in QueueIds :
          /\ p # q
          /\ Range(connections[u]) = {p, q}
          /\ queues[p] = <<format_sse_message("order_status_updated")>>
          /\ queues[q] = <<format_sse_message("sms_received"),
                           format_sse_message("order_status_updated")>>

====
